---- MODULE Spec2Model ----
(***************************************************************************)
(* A model of the NES emulator core: the graphics unit's timing state      *)
(* machine (src/src/ppu/mod.rs), the memory bus (src/src/bus/mod.rs) and   *)
(* the CPU's run loop (src/src/cpu/mod.rs).                                *)
(*                                                                         *)
(* Every Rust method is an operator from a machine record to a machine     *)
(* record; the fields of the record are the variables below plus the       *)
(* values a method hands back (val, addr, base, page_cross, cycles).  A    *)
(* panic (panic!, todo!, an overflow check of a debug build) unwinds out   *)
(* of the call: the record keeps what the call had written until then,     *)
(* "fault" names the panic and the rest of the call is skipped.            *)
(***************************************************************************)
EXTENDS Integers, Sequences, FiniteSets, TLC

VARIABLES
    \* PPU (src/src/ppu/mod.rs:87-112)
    scanline,          \* PPU.scanline: u16
    ppu_cycles,        \* PPU.cycles: usize
    ctrl,              \* PPU.ctrl: Control, as its byte
    status,            \* PPU.status: Status, as its byte
    nmi_interrupt,     \* PPU.nmi_interrupt: "None" or "NMI"
    \* MemoryBus (src/src/bus/mod.rs:10-15)
    bus_cycles,        \* MemoryBus.cycles: usize
    memory,            \* MemoryBus.memory: [u8; 2048], the non-zero cells
    prg_rom,           \* MemoryBus.prg_rom: its length and its non-zero bytes
    \* CPU (src/src/cpu/mod.rs:24-32)
    program_counter,   \* u16
    stack_pointer,     \* u8
    a, x, y,           \* u8
    processor_status,  \* ProcessorStatus, as its byte
    \* the build, the harness and the outcome of the last call
    debug_build,       \* TRUE: overflow checks on (a debug build); FALSE: release
    test_build,        \* TRUE: compiled with cfg(test)
    phase,             \* "bus": a bus exists; "cpu": a CPU owns it; "returned":
                       \* the run loop returned; "unwound": the run loop panicked
    op,                \* the call made last
    args,              \* its arguments
    ret,               \* what it returned ("true"/"false" for PPU::tick, else "unit")
    fault,             \* the panic that ended it, or "none"
    raised,            \* it assigned Some(NMI) to PPU.nmi_interrupt
    aborted,           \* some call so far has panicked
    \* observations of the run loop
    iter,              \* what the last loop iteration did
    steps,             \* loop iterations so far
    nmi_unserviced     \* an NMI was raised and interrupt(&NMI) has not entered since

vars == <<scanline, ppu_cycles, ctrl, status, nmi_interrupt, bus_cycles, memory,
          prg_rom, program_counter, stack_pointer, a, x, y, processor_status,
          debug_build, test_build, phase, op, args, ret, fault, raised, aborted,
          iter, steps, nmi_unserviced>>

----------------------------------------------------------------------------
(* Bounds of the model and constants of the program *)

CyclesPerScanline == 341
VblankScanline == 241
ScanlinesPerFrame == 262
GENERATE_NMI == 128
VBLANK_STARTED == 128

RAM_MIRRORS_END == 8191
PPU_REGISTERS_MIRRORS_END == 16383
OAM_DMA == 16404
STACK == 256
OPCODE_EXIT == 244
NMI_VECTOR == 65530
IRQ_BRK_VECTOR == 65534

\* ProcessorStatus bits
CARRY == 1
ZERO == 2
INTERRUPT_DISABLE == 4
DECIMAL == 8
BREAK == 16
BREAK2 == 32
OVERFLOW == 64
NEGATIVE == 128

\* arguments of the direct PPU::tick calls (cycles: u8)
TickArgs == {0, 11, 253}
\* bytes written to the control port
CtrlData == {0, 128}
\* arguments of the direct MemoryBus::tick calls (cycles: u8)
BusTickArgs == {0, 1, 85, 86, 255}
\* the direct MemoryBus::tick calls stop at this cycle total
MaxBusCycles == 600
\* the harness prepares the bus for at most this many CPU cycles
MaxSetupCycles == 27500
\* the harness lets the run loop make at most this many iterations
MaxIterations == 12
MaxPushes == 256
\* addresses of the direct bus accesses: the last cell of RAM and its last
\* mirror, the control and status ports and an address of the port window
\* above them, an undecoded address, cartridge space and two vector bytes
BusAddrs == {2047, 8191, 8192, 8194, 8200, 16384, 32768, 65530, 65535}
\* bytes and words of the direct bus writes
BusBytes == {0, 128}
BusWords == {33023}
\* a word written at the control port would put its high byte in the mask port
BusWordAddrs == BusAddrs \ {8192}

----------------------------------------------------------------------------
(* The machine record *)

NoIter ==
    [pc0 |-> 0,              \* program counter at the top of the iteration
     fetched_from |-> 0,     \* address the opcode byte was read from
     opcode |-> 0,
     polled |-> "None",      \* what poll_nmi_status returned
     nmi_entered |-> FALSE,  \* interrupt(&NMI) went past its mask test
     pushed_pc |-> 0,        \* the program counter it pushed
     executed |-> FALSE,     \* the instruction's handler returned
     callbacks |-> 0,        \* calls of the observer callback
     observed |-> <<>>,      \* what the callback was given: program counter, a, x,
                             \* y, stack pointer, status, bus cycles, descriptor
     cycle |-> 0,            \* descriptor: base cycle count
     plus_cycle |-> FALSE,   \* descriptor: +1 on page cross
     resolved |-> FALSE,     \* get_address ran
     base_addr |-> 0,        \* the address before indexing
     eff_addr |-> 0,         \* the address it returned
     ticked |-> FALSE,       \* the loop reached bus.tick(cycles)
     cycles |-> 0]           \* the argument of that call

Machine ==
    [scanline |-> scanline, ppu_cycles |-> ppu_cycles, ctrl |-> ctrl,
     status |-> status, nmi_interrupt |-> nmi_interrupt,
     bus_cycles |-> bus_cycles, memory |-> memory, prg_rom |-> prg_rom,
     program_counter |-> program_counter, stack_pointer |-> stack_pointer,
     a |-> a, x |-> x, y |-> y, processor_status |-> processor_status,
     debug_build |-> debug_build, test_build |-> test_build, phase |-> phase,
     args |-> <<>>, ret |-> "unit", fault |-> "none", raised |-> FALSE, aborted |-> aborted,
     iter |-> NoIter, steps |-> steps, nmi_unserviced |-> nmi_unserviced,
     val |-> 0, addr |-> 0, base |-> 0, page_cross |-> FALSE, cycles |-> 0]

Becomes(s, name) ==
    /\ scanline' = s.scanline
    /\ ppu_cycles' = s.ppu_cycles
    /\ ctrl' = s.ctrl
    /\ status' = s.status
    /\ nmi_interrupt' = s.nmi_interrupt
    /\ bus_cycles' = s.bus_cycles
    /\ memory' = s.memory
    /\ prg_rom' = s.prg_rom
    /\ program_counter' = s.program_counter
    /\ stack_pointer' = s.stack_pointer
    /\ a' = s.a
    /\ x' = s.x
    /\ y' = s.y
    /\ processor_status' = s.processor_status
    /\ phase' = s.phase
    /\ args' = s.args
    /\ ret' = s.ret
    /\ fault' = s.fault
    /\ raised' = s.raised
    /\ aborted' = s.aborted
    /\ iter' = s.iter
    /\ steps' = s.steps
    /\ nmi_unserviced' = s.nmi_unserviced
    /\ op' = name
    /\ UNCHANGED <<debug_build, test_build>>

\* the call whose outcome s is was made with these arguments
With(s, arguments) == [s EXCEPT !.args = arguments]

Ok(s) == s.fault = "none"

Panic(s, msg) == [s EXCEPT !.fault = msg, !.aborted = TRUE]

\* a part of the program the model does not follow; no run of the model gets here
Unmodelled(s) == [s EXCEPT !.fault = "outside the model"]

HasBits(byte, mask) == (byte \div mask) % 2 = 1

insert(byte, mask) == IF HasBits(byte, mask) THEN byte ELSE byte + mask

remove(byte, mask) == IF HasBits(byte, mask) THEN byte - mask ELSE byte

set(byte, mask, value) == IF value THEN insert(byte, mask) ELSE remove(byte, mask)

\* arrays of bytes as the function of their non-zero cells
NoBytes == [i \in {} |-> 0]

\* an assignment to a cell that leaves the array as it was
Store_nothing(bytes, i, v) == bytes

Load(bytes, i) == IF i \in DOMAIN bytes THEN bytes[i] ELSE 0

Store(bytes, i, v) ==
    IF v = 0
    THEN [j \in DOMAIN bytes \ {i} |-> bytes[j]]
    ELSE [j \in DOMAIN bytes \cup {i} |-> IF j = i THEN v ELSE bytes[j]]

----------------------------------------------------------------------------
(* Graphics unit *)

generate_vblank_nmi(c) == HasBits(c, GENERATE_NMI)

is_in_vblank(st) == HasBits(st, VBLANK_STARTED)

set_vblank_status(st) == insert(st, VBLANK_STARTED)

reset_vblank_status(st) == remove(st, VBLANK_STARTED)

\* PPU_tick with the frame wrap one scanline late (> for >=)
PPU_tick_late_wrap(s, cycles) ==
    LET total == s.ppu_cycles + cycles IN
    IF total >= CyclesPerScanline
    THEN LET line == s.scanline + 1
             s1 == [s EXCEPT !.ppu_cycles = total - CyclesPerScanline,
                             !.scanline = line]
         IN  IF line = VblankScanline /\ generate_vblank_nmi(s.ctrl)
             THEN Panic([s1 EXCEPT !.status = set_vblank_status(@)],
                        "todo: Should trigger NMI interrupt")
             ELSE IF line > ScanlinesPerFrame
             THEN [s1 EXCEPT !.scanline = 0,
                             !.status = reset_vblank_status(@),
                             !.ret = "true"]
             ELSE [s1 EXCEPT !.ret = "false"]
    ELSE [s EXCEPT !.ppu_cycles = total, !.ret = "false"]

\* PPU_tick signalling a complete frame at every scanline boundary
PPU_tick_every_line(s, cycles) ==
    LET total == s.ppu_cycles + cycles IN
    IF total >= CyclesPerScanline
    THEN LET line == s.scanline + 1
             s1 == [s EXCEPT !.ppu_cycles = total - CyclesPerScanline,
                             !.scanline = line]
         IN  IF line = VblankScanline /\ generate_vblank_nmi(s.ctrl)
             THEN Panic([s1 EXCEPT !.status = set_vblank_status(@)],
                        "todo: Should trigger NMI interrupt")
             ELSE IF line >= ScanlinesPerFrame
             THEN [s1 EXCEPT !.scanline = 0,
                             !.status = reset_vblank_status(@),
                             !.ret = "true"]
             ELSE [s1 EXCEPT !.ret = "true"]
    ELSE [s EXCEPT !.ppu_cycles = total, !.ret = "false"]

\* PPU_tick raising the interrupt at vblank entry where the code has todo!
PPU_tick_raising(s, cycles) ==
    LET total == s.ppu_cycles + cycles IN
    IF total >= CyclesPerScanline
    THEN LET line == s.scanline + 1
             s1 == [s EXCEPT !.ppu_cycles = total - CyclesPerScanline,
                             !.scanline = line]
         IN  IF line = VblankScanline /\ generate_vblank_nmi(s.ctrl)
             THEN [s1 EXCEPT !.status = set_vblank_status(@),
                             !.nmi_interrupt = "NMI",
                             !.ret = "false"]
             ELSE IF line >= ScanlinesPerFrame
             THEN [s1 EXCEPT !.scanline = 0,
                             !.status = reset_vblank_status(@),
                             !.ret = "true"]
             ELSE [s1 EXCEPT !.ret = "false"]
    ELSE [s EXCEPT !.ppu_cycles = total, !.ret = "false"]

PPU_tick(s, cycles) ==
    LET total == s.ppu_cycles + cycles IN
    IF total >= CyclesPerScanline
    THEN LET line == s.scanline + 1
             s1 == [s EXCEPT !.ppu_cycles = total - CyclesPerScanline,
                             !.scanline = line]
         IN  IF line = VblankScanline /\ generate_vblank_nmi(s.ctrl)
             THEN Panic([s1 EXCEPT !.status = set_vblank_status(@)],
                        "todo: Should trigger NMI interrupt")
             ELSE IF line >= ScanlinesPerFrame
             THEN [s1 EXCEPT !.scanline = 0,
                             !.status = reset_vblank_status(@),
                             !.ret = "true"]
             ELSE [s1 EXCEPT !.ret = "false"]
    ELSE [s EXCEPT !.ppu_cycles = total, !.ret = "false"]

\* write_register without the test of the bit's value before the write
write_register_Controller_no_edge(s, data) ==
    LET s1 == [s EXCEPT !.ctrl = data]
    IN  IF generate_vblank_nmi(s1.ctrl) /\ is_in_vblank(s1.status)
        THEN [s1 EXCEPT !.nmi_interrupt = "NMI", !.raised = TRUE,
                        !.nmi_unserviced = TRUE]
        ELSE s1

write_register_Controller(s, data) ==
    LET before_nmi_status == generate_vblank_nmi(s.ctrl)
        s1 == [s EXCEPT !.ctrl = data]
    IN  IF ~before_nmi_status /\ generate_vblank_nmi(s1.ctrl) /\ is_in_vblank(s1.status)
        THEN [s1 EXCEPT !.nmi_interrupt = "NMI", !.raised = TRUE,
                        !.nmi_unserviced = TRUE]
        ELSE s1

\* impl From<u16> for PPUAddress; "panic" where the conversion panics
PPUAddress_from(value) ==
    IF value <= 8191 THEN "CHRROM"
    ELSE IF value = 8192 THEN "Controller"
    ELSE IF value = 8193 THEN "Mask"
    ELSE IF value = 8194 THEN "Status"
    ELSE IF value = 8195 THEN "OAMAddress"
    ELSE IF value = 8196 THEN "OAMData"
    ELSE IF value = 8197 THEN "Scroll"
    ELSE IF value = 8198 THEN "Address"
    ELSE IF value = 8199 THEN "Data"
    ELSE IF value >= 8201 /\ value <= 12287 THEN "RAM"
    ELSE IF value >= 12288 /\ value <= 16127 THEN "panic"
    ELSE IF value >= 16128 /\ value <= 16383 THEN "PaletteTable"
    ELSE IF value = 16404 THEN "OAMDMA"
    ELSE "panic"

\* PPU::write_register(register, PPUValue::Byte(data)).  The mask, OAM, scroll,
\* address and data ports keep state that is not among the variables.
PPU_write_register(s, register, data) ==
    LET reg == PPUAddress_from(register) IN
    IF ~Ok(s) THEN s
    ELSE IF reg = "panic" THEN Panic(s, "Unsupported address")
    ELSE IF reg = "Controller" THEN write_register_Controller(s, data)
    ELSE IF reg = "Status" THEN Panic(s, "status is a r/o register but was written to!")
    ELSE IF reg = "OAMDMA" THEN Panic(s, "cannot convert to buffer")
    ELSE IF reg \in {"CHRROM", "RAM", "PaletteTable"} THEN Panic(s, "register not provided")
    ELSE Unmodelled(s)

PPU_read_register(s, register) ==
    LET reg == PPUAddress_from(register) IN
    IF ~Ok(s) THEN s
    ELSE IF reg = "panic" THEN Panic(s, "Unsupported address")
    ELSE IF reg \in {"Controller", "Mask", "OAMAddress", "Scroll", "Address", "OAMDMA"}
    THEN Panic(s, "is a write only register")
    ELSE IF reg = "Status" THEN [s EXCEPT !.val = s.status]
    ELSE IF reg \in {"CHRROM", "RAM", "PaletteTable"} THEN Panic(s, "register not provided")
    ELSE Unmodelled(s)

----------------------------------------------------------------------------
(* Memory bus *)

poll_nmi_status(s) == s.nmi_interrupt

read_from_rom(s, address) ==
    LET offset == address - 32768
        index == IF s.prg_rom.len = 16384 /\ offset >= 16384 THEN offset % 16384 ELSE offset
    IN  IF index >= s.prg_rom.len
        THEN Panic(s, "index out of bounds")
        ELSE [s EXCEPT !.val = Load(s.prg_rom.bytes, index)]

MemoryBus_read_byte(s, address) ==
    IF ~Ok(s) THEN s
    ELSE IF address <= RAM_MIRRORS_END
    THEN [s EXCEPT !.val = Load(s.memory, address % 2048)]
    ELSE IF address <= PPU_REGISTERS_MIRRORS_END \/ address = OAM_DMA
    THEN PPU_read_register(s, address)
    ELSE IF address >= 32768 THEN read_from_rom(s, address)
    ELSE Panic(s, "Ignoring mem access")

\* the cfg(test) arm of write_byte: a write to one of the three vectors
write_vector(s, address, data) ==
    LET offset == address - 32768 IN
    IF offset > s.prg_rom.len THEN Panic(s, "assertion failed: addr <= len")
    ELSE IF offset >= s.prg_rom.len THEN Panic(s, "index out of bounds")
    ELSE [s EXCEPT !.prg_rom.bytes = Store(@, offset, data)]

\* MemoryBus_write_byte with writes to the cartridge space dropped
MemoryBus_write_byte_rom_ignored(s, address, data) ==
    IF ~Ok(s) THEN s
    ELSE IF address <= RAM_MIRRORS_END
    THEN [s EXCEPT !.memory = Store(@, address % 2048, data)]
    ELSE IF address <= PPU_REGISTERS_MIRRORS_END \/ address = OAM_DMA
    THEN PPU_write_register(s, address, data)
    ELSE s

\* in a build with cfg(test) the arm of the vectors comes before the arm of
\* the cartridge space
MemoryBus_write_byte(s, address, data) ==
    IF ~Ok(s) THEN s
    ELSE IF address <= RAM_MIRRORS_END
    THEN [s EXCEPT !.memory = Store(@, address % 2048, data)]
    ELSE IF address <= PPU_REGISTERS_MIRRORS_END \/ address = OAM_DMA
    THEN PPU_write_register(s, address, data)
    ELSE IF s.test_build /\ address >= NMI_VECTOR THEN write_vector(s, address, data)
    ELSE IF address >= 32768 THEN Panic(s, "Attempt to write to Cartridge ROM space")
    ELSE s

\* MemoryBus_write_word with the two bytes in the other order
MemoryBus_write_word_big_endian(s, address, word) ==
    LET most_sig_bits(s1) ==
            IF ~Ok(s1) THEN s1
            ELSE IF address + 1 > 65535 /\ s1.debug_build
            THEN Panic(s1, "attempt to add with overflow")
            ELSE MemoryBus_write_byte(s1, (address + 1) % 65536, word % 256)
    IN  most_sig_bits(MemoryBus_write_byte(s, address, word \div 256))

MemoryBus_write_word(s, address, word) ==
    LET most_sig_bits(s1) ==
            IF ~Ok(s1) THEN s1
            ELSE IF address + 1 > 65535 /\ s1.debug_build
            THEN Panic(s1, "attempt to add with overflow")
            ELSE MemoryBus_write_byte(s1, (address + 1) % 65536, word \div 256)
    IN  most_sig_bits(MemoryBus_write_byte(s, address, word % 256))

MemoryBus_read_word(s, address) ==
    LET least_sig_bits(s1) ==
            LET most_sig_bits(s2) ==
                    IF ~Ok(s2) THEN s2 ELSE [s2 EXCEPT !.val = s2.val * 256 + s1.val]
            IN  IF ~Ok(s1) THEN s1
                ELSE IF address + 1 > 65535 /\ s1.debug_build
                THEN Panic(s1, "attempt to add with overflow")
                ELSE most_sig_bits(MemoryBus_read_byte(s1, (address + 1) % 65536))
    IN  least_sig_bits(MemoryBus_read_byte(s, address))

\* cycles * 3 is a u8 product: checked in a debug build, wrapping in a release build
MemoryBus_tick(s, cycles) ==
    LET s1 == [s EXCEPT !.bus_cycles = @ + cycles] IN
    IF ~Ok(s) THEN s
    ELSE IF cycles * 3 > 255
    THEN IF s.debug_build
         THEN Panic(s1, "attempt to multiply with overflow")
         ELSE [PPU_tick(s1, (cycles * 3) % 256) EXCEPT !.ret = "unit"]
    ELSE [PPU_tick(s1, cycles * 3) EXCEPT !.ret = "unit"]

----------------------------------------------------------------------------
(* Instruction table.  ops_codes.json, from which build.rs generates          *)
(* INSTRUCTION_SET, is not part of the sources: the entries below are the     *)
(* 6502's documented ones for the opcodes the programs of the model use.      *)

Instruction(op_code, bytes, cycle, instruction_type, memory_addressing_mode, plus_cycle) ==
    [op_code |-> op_code, bytes |-> bytes, cycle |-> cycle,
     instruction_type |-> instruction_type,
     memory_addressing_mode |-> memory_addressing_mode,
     plus_cycle |-> plus_cycle]

ops_codes ==
    (0   :> Instruction(0,   1, 7, "BRK", "Implied",   FALSE)) @@
    (6   :> Instruction(6,   2, 5, "ASL", "ZeroPage",  FALSE)) @@
    (8   :> Instruction(8,   1, 3, "PHP", "Implied",   FALSE)) @@
    (10  :> Instruction(10,  1, 2, "ASL", "Accumulator", FALSE)) @@
    (16  :> Instruction(16,  2, 2, "BPL", "Relative",  TRUE)) @@
    (32  :> Instruction(32,  3, 6, "JSR", "Absolute",  FALSE)) @@
    (38  :> Instruction(38,  2, 5, "ROL", "ZeroPage",  FALSE)) @@
    (40  :> Instruction(40,  1, 4, "PLP", "Implied",   FALSE)) @@
    (42  :> Instruction(42,  1, 2, "ROL", "Accumulator", FALSE)) @@
    (48  :> Instruction(48,  2, 2, "BMI", "Relative",  TRUE)) @@
    (64  :> Instruction(64,  1, 6, "RTI", "Implied",   FALSE)) @@
    (70  :> Instruction(70,  2, 5, "LSR", "ZeroPage",  FALSE)) @@
    (74  :> Instruction(74,  1, 2, "LSR", "Accumulator", FALSE)) @@
    (76  :> Instruction(76,  3, 3, "JMP", "Absolute",  FALSE)) @@
    (80  :> Instruction(80,  2, 2, "BVC", "Relative",  TRUE)) @@
    (96  :> Instruction(96,  1, 6, "RTS", "Implied",   FALSE)) @@
    (102 :> Instruction(102, 2, 5, "ROR", "ZeroPage",  FALSE)) @@
    (105 :> Instruction(105, 2, 2, "ADC", "Immediate", FALSE)) @@
    (106 :> Instruction(106, 1, 2, "ROR", "Accumulator", FALSE)) @@
    (108 :> Instruction(108, 3, 5, "JMP", "Indirect",  FALSE)) @@
    (112 :> Instruction(112, 2, 2, "BVS", "Relative",  TRUE)) @@
    (144 :> Instruction(144, 2, 2, "BCC", "Relative",  TRUE)) @@
    (165 :> Instruction(165, 2, 3, "LDA", "ZeroPage",  FALSE)) @@
    (176 :> Instruction(176, 2, 2, "BCS", "Relative",  TRUE)) @@
    (181 :> Instruction(181, 2, 4, "LDA", "ZeroPageX", FALSE)) @@
    (182 :> Instruction(182, 2, 4, "LDX", "ZeroPageY", FALSE)) @@
    (188 :> Instruction(188, 3, 4, "LDY", "AbsoluteX", TRUE)) @@
    (189 :> Instruction(189, 3, 4, "LDA", "AbsoluteX", TRUE)) @@
    (190 :> Instruction(190, 3, 4, "LDX", "AbsoluteY", TRUE)) @@
    (208 :> Instruction(208, 2, 2, "BNE", "Relative",  TRUE)) @@
    (233 :> Instruction(233, 2, 2, "SBC", "Immediate", FALSE)) @@
    (234 :> Instruction(234, 1, 2, "NOP", "Implied",   FALSE)) @@
    (240 :> Instruction(240, 2, 2, "BEQ", "Relative",  TRUE))

\* the entry of an unlisted opcode handled as the NOP it is dispatched to
NotImplemented_as_nop(i) == Instruction(i, 0, 0, "NOP", "Immediate", FALSE)

\* build.rs:44, the entry of an opcode ops_codes.json does not list
NotImplemented(i) == Instruction(i, 0, 0, "NotImplemented", "Immediate", FALSE)

ILLEGAL_CODES == <<Instruction(255, 2, 7, "ISB", "IndirectX", FALSE)>>

\* the opcodes ops_codes.json lists: the 151 documented opcodes of the 6502,
\* of which ops_codes above gives the entries the cartridges of this model use
DocumentedOpcodes ==
    {0, 1, 5, 6, 8, 9, 10, 13, 14, 16, 17, 21, 22, 24, 25, 29, 30, 32,
     33, 36, 37, 38, 40, 41, 42, 44, 45, 46, 48, 49, 53, 54, 56, 57, 61,
     62, 64, 65, 69, 70, 72, 73, 74, 76, 77, 78, 80, 81, 85, 86, 88, 89,
     93, 94, 96, 97, 101, 102, 104, 105, 106, 108, 109, 110, 112, 113,
     117, 118, 120, 121, 125, 126, 129, 132, 133, 134, 136, 138, 140,
     141, 142, 144, 145, 148, 149, 150, 152, 153, 154, 157, 160, 161,
     162, 164, 165, 166, 168, 169, 170, 172, 173, 174, 176, 177, 180,
     181, 182, 184, 185, 186, 188, 189, 190, 192, 193, 196, 197, 198,
     200, 201, 202, 204, 205, 206, 208, 209, 213, 214, 216, 217, 221,
     222, 224, 225, 228, 229, 230, 232, 233, 234, 236, 237, 238, 240,
     241, 245, 246, 248, 249, 253, 254}

\* INSTRUCTION_SET has the 255 entries 0..254 (build.rs:41)
INSTRUCTION_SET(i) ==
    IF i \in DOMAIN ops_codes THEN ops_codes[i]
    ELSE IF i \notin DocumentedOpcodes THEN NotImplemented(i)
    ELSE Instruction(i, 0, 0, "outside the model", "Implied", FALSE)

get_instruction_from_opcode(op_code) ==
    IF op_code >= 255
    THEN ILLEGAL_CODES[op_code - 255 + 1]
    ELSE INSTRUCTION_SET(op_code)

----------------------------------------------------------------------------
(* CPU: helpers *)

NMI == [itype |-> "NMI", vector_addr |-> NMI_VECTOR, break_flag |-> FALSE, cpu_cycles |-> 2]

IRQ == [itype |-> "IRQ", vector_addr |-> IRQ_BRK_VECTOR, break_flag |-> FALSE, cpu_cycles |-> 2]

BRK == [itype |-> "BRK", vector_addr |-> IRQ_BRK_VECTOR, break_flag |-> TRUE, cpu_cycles |-> 1]

read_next_byte(s) ==
    LET advance(s1) ==
            IF ~Ok(s1) THEN s1
            ELSE IF s1.program_counter + 1 > 65535 /\ s1.debug_build
            THEN Panic(s1, "attempt to add with overflow")
            ELSE [s1 EXCEPT !.program_counter = (@ + 1) % 65536]
    IN  advance(MemoryBus_read_byte(s, s.program_counter))

read_next_word(s) ==
    LET advance(s1) ==
            IF ~Ok(s1) THEN s1
            ELSE IF s1.program_counter + 2 > 65535 /\ s1.debug_build
            THEN Panic(s1, "attempt to add with overflow")
            ELSE [s1 EXCEPT !.program_counter = (@ + 2) % 65536]
    IN  advance(MemoryBus_read_word(s, s.program_counter))

set_negative_and_zero_process_status(s, int) ==
    [s EXCEPT !.processor_status = set(set(@, ZERO, int = 0), NEGATIVE, int >= 128)]

\* CPU::push with a stack pointer that does not wrap
push_unwrapped(s, byte) ==
    LET moved(s1) ==
            IF ~Ok(s1) THEN s1 ELSE [s1 EXCEPT !.stack_pointer = @ - 1]
    IN  moved(MemoryBus_write_byte(s, STACK + s.stack_pointer, byte))

push(s, byte) ==
    LET moved(s1) ==
            IF ~Ok(s1) THEN s1 ELSE [s1 EXCEPT !.stack_pointer = (@ + 255) % 256]
    IN  moved(MemoryBus_write_byte(s, STACK + s.stack_pointer, byte))

push_word(s, word) == push(push(s, word \div 256), word % 256)

\* CPU::pop reading before it moves the stack pointer
pop_read_first(s) ==
    LET sp == (s.stack_pointer + 1) % 256 IN
    IF ~Ok(s) THEN s
    ELSE MemoryBus_read_byte([s EXCEPT !.stack_pointer = sp], STACK + s.stack_pointer)

pop(s) ==
    LET sp == (s.stack_pointer + 1) % 256 IN
    IF ~Ok(s) THEN s
    ELSE MemoryBus_read_byte([s EXCEPT !.stack_pointer = sp], STACK + sp)

\* CPU::pop_word taking the first byte popped as the high byte
pop_word_high_first(s) ==
    LET high(s1) ==
            LET low(s2) ==
                    IF ~Ok(s2) THEN s2 ELSE [s2 EXCEPT !.val = s1.val * 256 + s2.val]
            IN  low(pop(s1))
    IN  high(pop(s))

pop_word(s) ==
    LET low(s1) ==
            LET high(s2) ==
                    IF ~Ok(s2) THEN s2 ELSE [s2 EXCEPT !.val = s1.val + s2.val * 256]
            IN  high(pop(s1))
    IN  low(pop(s))

\* CPU::interrupt pushing the low byte of the program counter first
interrupt_low_first(s, int) ==
    LET push_flag(s1) ==
            push(s1, insert(insert(s1.processor_status, BREAK), BREAK2))
        disable(s2) ==
            IF ~Ok(s2) THEN s2
            ELSE [s2 EXCEPT !.processor_status = insert(@, INTERRUPT_DISABLE)]
        tick(s3) == MemoryBus_tick(s3, int.cpu_cycles)
        vector(s4) == MemoryBus_read_word(s4, int.vector_addr)
        jump(s5) == IF ~Ok(s5) THEN s5 ELSE [s5 EXCEPT !.program_counter = s5.val]
    IN  IF ~Ok(s) THEN s
        ELSE IF HasBits(s.processor_status, INTERRUPT_DISABLE) /\ int.itype # "IRQ" THEN s
        ELSE jump(vector(tick(disable(push_flag(
                 push(push(s, s.program_counter % 256), s.program_counter \div 256))))))

interrupt(s, int) ==
    LET entering(s0) ==
            IF int.itype = "NMI"
            THEN [s0 EXCEPT !.iter.nmi_entered = TRUE,
                            !.iter.pushed_pc = s0.program_counter,
                            !.nmi_unserviced = FALSE]
            ELSE s0
        push_flag(s1) ==
            push(s1, insert(insert(s1.processor_status, BREAK), BREAK2))
        disable(s2) ==
            IF ~Ok(s2) THEN s2
            ELSE [s2 EXCEPT !.processor_status = insert(@, INTERRUPT_DISABLE)]
        tick(s3) == MemoryBus_tick(s3, int.cpu_cycles)
        vector(s4) == MemoryBus_read_word(s4, int.vector_addr)
        jump(s5) == IF ~Ok(s5) THEN s5 ELSE [s5 EXCEPT !.program_counter = s5.val]
    IN  IF ~Ok(s) THEN s
        ELSE IF HasBits(s.processor_status, INTERRUPT_DISABLE) /\ int.itype # "IRQ" THEN s
        ELSE jump(vector(tick(disable(push_flag(
                 push_word(entering(s), s.program_counter))))))

----------------------------------------------------------------------------
(* CPU: addressing.  Each operator leaves the address in addr, the address   *)
(* before indexing in base and the method's boolean in page_cross.           *)

absolute_address(s) ==
    LET found(s1) == [s1 EXCEPT !.addr = s1.val, !.base = s1.val, !.page_cross = FALSE]
    IN  found(read_next_word(s))

absolute_x_address(s) ==
    LET indexed(s1) ==
            LET base_addr == s1.addr
                addr == (base_addr + s1.x) % 65536
            IN  [s1 EXCEPT !.addr = addr, !.base = base_addr,
                           !.page_cross = (addr % 256 # base_addr % 256)]
    IN  indexed(absolute_address(s))

absolute_y_address(s) ==
    LET indexed(s1) ==
            LET base_addr == s1.val
                addr == (base_addr + s1.y) % 65536
            IN  [s1 EXCEPT !.addr = addr, !.base = base_addr,
                           !.page_cross = (addr % 256 # base_addr % 256)]
    IN  indexed(read_next_word(s))

zero_page_address(s) ==
    LET found(s1) == [s1 EXCEPT !.addr = s1.val, !.base = s1.val, !.page_cross = FALSE]
    IN  found(read_next_byte(s))

zero_page_x_address(s) ==
    LET indexed(s1) ==
            LET base_addr == s1.val
                addr == (base_addr + s1.x) % 256
            IN  [s1 EXCEPT !.addr = addr, !.base = base_addr,
                           !.page_cross = (addr % 256 # base_addr % 256)]
    IN  indexed(read_next_byte(s))

zero_page_y_address(s) ==
    LET indexed(s1) ==
            LET base_addr == s1.val
                addr == (base_addr + s1.y) % 256
            IN  [s1 EXCEPT !.addr = addr, !.base = base_addr,
                           !.page_cross = (addr % 256 # base_addr % 256)]
    IN  indexed(read_next_byte(s))

indirect_x_address(s) ==
    LET pointer(s1) ==
            LET ptr == (s1.val + s1.x) % 256
                low(lo) ==
                    LET high(hi) ==
                            [hi EXCEPT !.addr = hi.val * 256 + lo.val,
                                       !.base = hi.val * 256 + lo.val,
                                       !.page_cross = FALSE]
                    IN  high(MemoryBus_read_byte(lo, (ptr + 1) % 256))
            IN  low(MemoryBus_read_byte(s1, ptr))
    IN  pointer(read_next_byte(s))

indirect_y_address(s) ==
    LET pointer(s1) ==
            LET low(lo) ==
                    LET high(hi) ==
                            LET deref_base == hi.val * 256 + lo.val
                                addr == (deref_base + hi.y) % 65536
                            IN  [hi EXCEPT !.addr = addr, !.base = deref_base,
                                           !.page_cross =
                                               (deref_base \div 256 # addr \div 256)]
                    IN  high(MemoryBus_read_byte(lo, (s1.val + 1) % 256))
            IN  low(MemoryBus_read_byte(s1, s1.val))
    IN  pointer(read_next_byte(s))

get_address(s, memory_addressing_mode) ==
    LET resolved(s1) ==
            IF ~Ok(s1) THEN s1
            ELSE [s1 EXCEPT !.iter.resolved = TRUE,
                            !.iter.base_addr = s1.base,
                            !.iter.eff_addr = s1.addr]
    IN  IF ~Ok(s) THEN s
        ELSE resolved(
            CASE memory_addressing_mode = "Absolute"  -> absolute_address(s)
              [] memory_addressing_mode = "AbsoluteX" -> absolute_x_address(s)
              [] memory_addressing_mode = "AbsoluteY" -> absolute_y_address(s)
              [] memory_addressing_mode = "ZeroPage"  -> zero_page_address(s)
              [] memory_addressing_mode = "ZeroPageX" -> zero_page_x_address(s)
              [] memory_addressing_mode = "ZeroPageY" -> zero_page_y_address(s)
              [] memory_addressing_mode = "IndirectX" -> indirect_x_address(s)
              [] memory_addressing_mode = "IndirectY" -> indirect_y_address(s)
              [] memory_addressing_mode = "Relative"  ->
                     Panic(s, "Look up not supported for relative")
              [] OTHER -> Panic(s, "Not Supported"))

\* CPU::read_byte(mode): the byte in val, the flag in page_cross
read_byte(s, memory_addressing_mode) ==
    LET at(s1) == MemoryBus_read_byte(s1, s1.addr)
        immediate(s1) == [s1 EXCEPT !.page_cross = FALSE]
    IN  IF ~Ok(s) THEN s
        ELSE IF memory_addressing_mode = "Accumulator"
        THEN [s EXCEPT !.val = s.a, !.page_cross = FALSE]
        ELSE IF memory_addressing_mode = "Immediate"
        THEN immediate(read_next_byte(s))
        ELSE at(get_address(s, memory_addressing_mode))

----------------------------------------------------------------------------
(* CPU: instructions.  Each operator leaves the u8 the method returns in     *)
(* cycles.                                                                   *)

\* CPU::add with the carry flag left as it was
add_carry_kept(s, reg_value, data) ==
    LET wide == reg_value + data + (IF HasBits(s.processor_status, CARRY) THEN 1 ELSE 0)
        sum == wide % 256
        sign(byte) == HasBits(byte, 128)
    IN  [s EXCEPT !.processor_status =
                      set(@, OVERFLOW, sign(data) # sign(sum) /\ sign(sum) # sign(s.a)),
                  !.val = sum]

\* CPU::add: the sum in val.  The overflow flag compares bit 7 of data, of
\* the sum and of the accumulator
add(s, reg_value, data) ==
    LET wide == reg_value + data + (IF HasBits(s.processor_status, CARRY) THEN 1 ELSE 0)
        sum == wide % 256
        sign(byte) == HasBits(byte, 128)
    IN  [s EXCEPT !.processor_status =
                      set(set(@, CARRY, wide > 255),
                          OVERFLOW, sign(data) # sign(sum) /\ sign(sum) # sign(s.a)),
                  !.val = sum]

adc(s, instruction) ==
    LET sum(s1) ==
            IF ~Ok(s1) THEN s1
            ELSE LET page_cross == s1.page_cross
                     added(s2) ==
                         [set_negative_and_zero_process_status([s2 EXCEPT !.a = s2.val],
                                                               s2.val)
                             EXCEPT !.cycles = IF page_cross
                                               THEN instruction.cycle + 1
                                               ELSE instruction.cycle]
                 IN  added(add(s1, s1.a, s1.val))
    IN  sum(read_byte(s, instruction.memory_addressing_mode))

\* CPU::sbc with the operand negated and not decremented
sbc_negated(s, instruction) ==
    LET difference(s1) ==
            IF ~Ok(s1) THEN s1
            ELSE LET page_cross == s1.page_cross
                     added(s2) ==
                         [set_negative_and_zero_process_status([s2 EXCEPT !.a = s2.val],
                                                               s2.val)
                             EXCEPT !.cycles = IF page_cross
                                               THEN instruction.cycle + 1
                                               ELSE instruction.cycle]
                 IN  added(add(s1, s1.a, (256 - s1.val) % 256))
    IN  difference(read_byte(s, instruction.memory_addressing_mode))

\* CPU::sbc: the operand handed to add is
\* (data as i8).wrapping_neg().wrapping_sub(1) as u8
sbc(s, instruction) ==
    LET difference(s1) ==
            IF ~Ok(s1) THEN s1
            ELSE LET page_cross == s1.page_cross
                     added(s2) ==
                         [set_negative_and_zero_process_status([s2 EXCEPT !.a = s2.val],
                                                               s2.val)
                             EXCEPT !.cycles = IF page_cross
                                               THEN instruction.cycle + 1
                                               ELSE instruction.cycle]
                 IN  added(add(s1, s1.a, (((256 - s1.val) % 256) + 255) % 256))
    IN  difference(read_byte(s, instruction.memory_addressing_mode))

asl(s, instruction) ==
    LET carry_out(value) == value \div 128 = 1
        moved(value, carry) == (value * 2) % 256
        flagged(s1, value) ==
            IF ~Ok(s1) THEN s1
            ELSE [set_negative_and_zero_process_status(s1, value)
                     EXCEPT !.cycles = instruction.cycle]
        stored(s1, address, value, carry) ==
            flagged(MemoryBus_write_byte(
                        [s1 EXCEPT !.processor_status = set(@, CARRY, carry_out(value))],
                        address, moved(value, carry)),
                    moved(value, carry))
        fetched(s1, address) ==
            IF ~Ok(s1) THEN s1
            ELSE stored(s1, address, s1.val, HasBits(s1.processor_status, CARRY))
        resolved(s1) == IF ~Ok(s1) THEN s1 ELSE fetched(MemoryBus_read_byte(s1, s1.addr), s1.addr)
    IN  IF ~Ok(s) THEN s
        ELSE IF instruction.memory_addressing_mode = "Accumulator"
        THEN flagged([s EXCEPT !.processor_status = set(@, CARRY, carry_out(s.a)),
                               !.a = moved(s.a, HasBits(s.processor_status, CARRY))],
                     moved(s.a, HasBits(s.processor_status, CARRY)))
        ELSE IF instruction.memory_addressing_mode = "Immediate"
        THEN Panic(s, "immediate addressing not supported for lsr")
        ELSE resolved(get_address(s, instruction.memory_addressing_mode))

\* CPU::branch taking the branch whatever the condition
branch_always(s, jump) ==
    LET taken(s1) ==
            IF ~Ok(s1) THEN s1
            ELSE [s1 EXCEPT !.program_counter =
                                (@ + (IF s1.val >= 128 THEN s1.val + 65280 ELSE s1.val))
                                    % 65536]
    IN  taken(read_next_byte(s))

\* offset as i8, then as u16: the byte sign-extended to sixteen bits
branch(s, jump) ==
    LET taken(s1) ==
            IF ~Ok(s1) \/ ~jump THEN s1
            ELSE [s1 EXCEPT !.program_counter =
                                (@ + (IF s1.val >= 128 THEN s1.val + 65280 ELSE s1.val))
                                    % 65536]
    IN  taken(read_next_byte(s))

bcc(s, instruction) ==
    LET done(s1) == IF ~Ok(s1) THEN s1 ELSE [s1 EXCEPT !.cycles = instruction.cycle]
    IN  done(branch(s, ~HasBits(s.processor_status, CARRY)))

bcs(s, instruction) ==
    LET done(s1) == IF ~Ok(s1) THEN s1 ELSE [s1 EXCEPT !.cycles = instruction.cycle]
    IN  done(branch(s, HasBits(s.processor_status, CARRY)))

beq(s, instruction) ==
    LET done(s1) == IF ~Ok(s1) THEN s1 ELSE [s1 EXCEPT !.cycles = instruction.cycle]
    IN  done(branch(s, HasBits(s.processor_status, ZERO)))

bmi(s, instruction) ==
    LET done(s1) == IF ~Ok(s1) THEN s1 ELSE [s1 EXCEPT !.cycles = instruction.cycle]
    IN  done(branch(s, HasBits(s.processor_status, NEGATIVE)))

bne(s, instruction) ==
    LET done(s1) == IF ~Ok(s1) THEN s1 ELSE [s1 EXCEPT !.cycles = instruction.cycle]
    IN  done(branch(s, ~HasBits(s.processor_status, ZERO)))

bpl(s, instruction) ==
    LET done(s1) == IF ~Ok(s1) THEN s1 ELSE [s1 EXCEPT !.cycles = instruction.cycle]
    IN  done(branch(s, ~HasBits(s.processor_status, NEGATIVE)))

bvc(s, instruction) ==
    LET done(s1) == IF ~Ok(s1) THEN s1 ELSE [s1 EXCEPT !.cycles = instruction.cycle]
    IN  done(branch(s, ~HasBits(s.processor_status, OVERFLOW)))

bvs(s, instruction) ==
    LET done(s1) == IF ~Ok(s1) THEN s1 ELSE [s1 EXCEPT !.cycles = instruction.cycle]
    IN  done(branch(s, HasBits(s.processor_status, OVERFLOW)))

brk(s, instruction) ==
    LET done(s1) == IF ~Ok(s1) THEN s1 ELSE [s1 EXCEPT !.cycles = instruction.cycle]
    IN  done(interrupt(s, BRK))

isb(s, instruction) == IF ~Ok(s) THEN s ELSE Panic(s, "not yet implemented")

\* CPU::jmp with the high byte of an indirect target always read at addr + 1
jmp_next_page(s, instruction) ==
    LET jump(s1) ==
            IF ~Ok(s1) THEN s1
            ELSE [s1 EXCEPT !.program_counter = s1.val, !.cycles = instruction.cycle]
        pointer(s1) == IF ~Ok(s1) THEN s1 ELSE MemoryBus_read_word(s1, s1.val)
    IN  IF ~Ok(s) THEN s
        ELSE jump(CASE instruction.memory_addressing_mode = "Indirect" ->
                           pointer(read_next_word(s))
                    [] instruction.memory_addressing_mode = "Absolute" -> read_next_word(s)
                    [] OTHER -> Panic(s, "Not support for jmp"))

jmp(s, instruction) ==
    LET jump(s1) ==
            IF ~Ok(s1) THEN s1
            ELSE [s1 EXCEPT !.program_counter = s1.val, !.cycles = instruction.cycle]
        hi(s2, lo) == IF ~Ok(s2) THEN s2 ELSE [s2 EXCEPT !.val = s2.val * 256 + lo]
        lo(s1, addr) ==
            IF ~Ok(s1) THEN s1
            ELSE hi(MemoryBus_read_byte(s1, (addr \div 256) * 256), s1.val)
        pointer(s1) ==
            IF ~Ok(s1) THEN s1
            ELSE IF s1.val % 256 = 255
            THEN lo(MemoryBus_read_byte(s1, s1.val), s1.val)
            ELSE MemoryBus_read_word(s1, s1.val)
    IN  IF ~Ok(s) THEN s
        ELSE jump(CASE instruction.memory_addressing_mode = "Indirect" ->
                           pointer(read_next_word(s))
                    [] instruction.memory_addressing_mode = "Absolute" -> read_next_word(s)
                    [] OTHER -> Panic(s, "Not support for jmp"))

\* CPU::jsr pushing the program counter itself
jsr_pc_pushed(s, instruction) ==
    LET jump(s2, addr) ==
            IF ~Ok(s2) THEN s2
            ELSE [s2 EXCEPT !.program_counter = addr, !.cycles = instruction.cycle]
        resolved(s1) ==
            IF ~Ok(s1) THEN s1
            ELSE jump(push_word(s1, s1.program_counter), s1.addr)
    IN  resolved(get_address(s, instruction.memory_addressing_mode))

\* program_counter - 1 is a u16 difference: checked in a debug build, wrapping
\* in a release build
jsr(s, instruction) ==
    LET jump(s2, addr) ==
            IF ~Ok(s2) THEN s2
            ELSE [s2 EXCEPT !.program_counter = addr, !.cycles = instruction.cycle]
        resolved(s1) ==
            IF ~Ok(s1) THEN s1
            ELSE IF s1.program_counter = 0 /\ s1.debug_build
            THEN Panic(s1, "attempt to subtract with overflow")
            ELSE jump(push_word(s1, (s1.program_counter + 65535) % 65536), s1.addr)
    IN  resolved(get_address(s, instruction.memory_addressing_mode))

lda(s, instruction) ==
    LET load(s1) ==
            IF ~Ok(s1) THEN s1
            ELSE [set_negative_and_zero_process_status([s1 EXCEPT !.a = s1.val], s1.val)
                     EXCEPT !.cycles = IF s1.page_cross
                                       THEN instruction.cycle + 1
                                       ELSE instruction.cycle]
    IN  load(read_byte(s, instruction.memory_addressing_mode))

ldx(s, instruction) ==
    LET load(s1) ==
            IF ~Ok(s1) THEN s1
            ELSE [set_negative_and_zero_process_status([s1 EXCEPT !.x = s1.val], s1.val)
                     EXCEPT !.cycles = instruction.cycle]
    IN  load(read_byte(s, instruction.memory_addressing_mode))

ldy(s, instruction) ==
    LET load(s1) ==
            IF ~Ok(s1) THEN s1
            ELSE [set_negative_and_zero_process_status([s1 EXCEPT !.y = s1.val], s1.val)
                     EXCEPT !.cycles = instruction.cycle]
    IN  load(read_byte(s, instruction.memory_addressing_mode))

lsr(s, instruction) ==
    LET carry_out(value) == value % 2 = 1
        moved(value, carry) == value \div 2
        flagged(s1, value) ==
            IF ~Ok(s1) THEN s1
            ELSE [set_negative_and_zero_process_status(s1, value)
                     EXCEPT !.cycles = instruction.cycle]
        stored(s1, address, value, carry) ==
            flagged(MemoryBus_write_byte(
                        [s1 EXCEPT !.processor_status = set(@, CARRY, carry_out(value))],
                        address, moved(value, carry)),
                    moved(value, carry))
        fetched(s1, address) ==
            IF ~Ok(s1) THEN s1
            ELSE stored(s1, address, s1.val, HasBits(s1.processor_status, CARRY))
        resolved(s1) == IF ~Ok(s1) THEN s1 ELSE fetched(MemoryBus_read_byte(s1, s1.addr), s1.addr)
    IN  IF ~Ok(s) THEN s
        ELSE IF instruction.memory_addressing_mode = "Accumulator"
        THEN flagged([s EXCEPT !.processor_status = set(@, CARRY, carry_out(s.a)),
                               !.a = moved(s.a, HasBits(s.processor_status, CARRY))],
                     moved(s.a, HasBits(s.processor_status, CARRY)))
        ELSE IF instruction.memory_addressing_mode = "Immediate"
        THEN Panic(s, "immediate addressing not supported for lsr")
        ELSE resolved(get_address(s, instruction.memory_addressing_mode))

\* CPU::nop keeping the byte it reads in the accumulator
nop_into_a(s, instruction) ==
    LET done(s1) ==
            IF ~Ok(s1) THEN s1 ELSE [s1 EXCEPT !.a = s1.val, !.cycles = instruction.cycle]
    IN  done(IF instruction.memory_addressing_mode = "Implied"
             THEN s
             ELSE read_byte(s, instruction.memory_addressing_mode))

nop(s, instruction) ==
    LET done(s1) == IF ~Ok(s1) THEN s1 ELSE [s1 EXCEPT !.cycles = instruction.cycle]
    IN  done(IF instruction.memory_addressing_mode = "Implied"
             THEN s
             ELSE read_byte(s, instruction.memory_addressing_mode))

php(s, instruction) ==
    LET done(s1) == IF ~Ok(s1) THEN s1 ELSE [s1 EXCEPT !.cycles = instruction.cycle]
    IN  done(push(s, insert(s.processor_status, BREAK)))

\* CPU::plp taking the popped byte as it is
plp_as_popped(s, instruction) ==
    LET restore(s1) ==
            IF ~Ok(s1) THEN s1
            ELSE [s1 EXCEPT !.processor_status = s1.val,
                            !.cycles = instruction.bytes]
    IN  restore(pop(s))

plp(s, instruction) ==
    LET restore(s1) ==
            IF ~Ok(s1) THEN s1
            ELSE [s1 EXCEPT !.processor_status = insert(remove(s1.val, BREAK), BREAK2),
                            !.cycles = instruction.bytes]
    IN  restore(pop(s))

rol(s, instruction) ==
    LET carry_out(value) == ~HasBits(value, 64)
        moved(value, carry) == ((value * 2) % 256) + (IF carry THEN 1 ELSE 0)
        flagged(s1, value) ==
            IF ~Ok(s1) THEN s1
            ELSE [set_negative_and_zero_process_status(s1, value)
                     EXCEPT !.cycles = instruction.cycle]
        stored(s1, address, value, carry) ==
            flagged(MemoryBus_write_byte(
                        [s1 EXCEPT !.processor_status = set(@, CARRY, carry_out(value))],
                        address, moved(value, carry)),
                    moved(value, carry))
        fetched(s1, address) ==
            IF ~Ok(s1) THEN s1
            ELSE stored(s1, address, s1.val, HasBits(s1.processor_status, CARRY))
        resolved(s1) == IF ~Ok(s1) THEN s1 ELSE fetched(MemoryBus_read_byte(s1, s1.addr), s1.addr)
    IN  IF ~Ok(s) THEN s
        ELSE IF instruction.memory_addressing_mode = "Accumulator"
        THEN flagged([s EXCEPT !.processor_status = set(@, CARRY, carry_out(s.a)),
                               !.a = moved(s.a, HasBits(s.processor_status, CARRY))],
                     moved(s.a, HasBits(s.processor_status, CARRY)))
        ELSE IF instruction.memory_addressing_mode = "Immediate"
        THEN Panic(s, "immediate addressing not supported for ror")
        ELSE resolved(get_address(s, instruction.memory_addressing_mode))

ror(s, instruction) ==
    LET carry_out(value) == value % 2 = 1
        moved(value, carry) == (value \div 2) + (IF carry THEN 128 ELSE 0)
        flagged(s1, value) ==
            IF ~Ok(s1) THEN s1
            ELSE [set_negative_and_zero_process_status(s1, value)
                     EXCEPT !.cycles = instruction.cycle]
        stored(s1, address, value, carry) ==
            flagged(MemoryBus_write_byte(
                        [s1 EXCEPT !.processor_status = set(@, CARRY, carry_out(value))],
                        address, moved(value, carry)),
                    moved(value, carry))
        fetched(s1, address) ==
            IF ~Ok(s1) THEN s1
            ELSE stored(s1, address, s1.val, HasBits(s1.processor_status, CARRY))
        resolved(s1) == IF ~Ok(s1) THEN s1 ELSE fetched(MemoryBus_read_byte(s1, s1.addr), s1.addr)
    IN  IF ~Ok(s) THEN s
        ELSE IF instruction.memory_addressing_mode = "Accumulator"
        THEN flagged([s EXCEPT !.processor_status = set(@, CARRY, carry_out(s.a)),
                               !.a = moved(s.a, HasBits(s.processor_status, CARRY))],
                     moved(s.a, HasBits(s.processor_status, CARRY)))
        ELSE IF instruction.memory_addressing_mode = "Immediate"
        THEN Panic(s, "immediate addressing not supported for ror")
        ELSE resolved(get_address(s, instruction.memory_addressing_mode))

\* CPU::rti taking the popped status byte as it is
rti_as_popped(s, instruction) ==
    LET restore(s1) ==
            IF ~Ok(s1) THEN s1
            ELSE [s1 EXCEPT !.processor_status = s1.val]
        jump(s3) ==
            IF ~Ok(s3) THEN s3
            ELSE [s3 EXCEPT !.program_counter = s3.val, !.cycles = instruction.cycle]
    IN  jump(pop_word(restore(pop(s))))

rti(s, instruction) ==
    LET restore(s1) ==
            IF ~Ok(s1) THEN s1
            ELSE [s1 EXCEPT !.processor_status = insert(remove(s1.val, BREAK), BREAK2)]
        jump(s3) ==
            IF ~Ok(s3) THEN s3
            ELSE [s3 EXCEPT !.program_counter = s3.val, !.cycles = instruction.cycle]
    IN  jump(pop_word(restore(pop(s))))

\* pop_word() + 1 is a u16 sum: checked in a debug build, wrapping in a
\* release build
rts(s, instruction) ==
    LET jump(s1) ==
            IF ~Ok(s1) THEN s1
            ELSE IF s1.val + 1 > 65535 /\ s1.debug_build
            THEN Panic(s1, "attempt to add with overflow")
            ELSE [s1 EXCEPT !.program_counter = (s1.val + 1) % 65536,
                            !.cycles = instruction.cycle]
    IN  jump(pop_word(s))

\* the match on instruction.instruction_type of start_with_callback
execute(s, instruction) ==
    CASE instruction.instruction_type = "ADC" -> adc(s, instruction)
      [] instruction.instruction_type = "ASL" -> asl(s, instruction)
      [] instruction.instruction_type = "BCC" -> bcc(s, instruction)
      [] instruction.instruction_type = "BCS" -> bcs(s, instruction)
      [] instruction.instruction_type = "BEQ" -> beq(s, instruction)
      [] instruction.instruction_type = "BMI" -> bmi(s, instruction)
      [] instruction.instruction_type = "BNE" -> bne(s, instruction)
      [] instruction.instruction_type = "BPL" -> bpl(s, instruction)
      [] instruction.instruction_type = "BRK" -> brk(s, instruction)
      [] instruction.instruction_type = "BVC" -> bvc(s, instruction)
      [] instruction.instruction_type = "BVS" -> bvs(s, instruction)
      [] instruction.instruction_type = "ISB" -> isb(s, instruction)
      [] instruction.instruction_type = "LDA" -> lda(s, instruction)
      [] instruction.instruction_type = "LDX" -> ldx(s, instruction)
      [] instruction.instruction_type = "LDY" -> ldy(s, instruction)
      [] instruction.instruction_type = "NOP" -> nop(s, instruction)
      [] instruction.instruction_type = "PHP" -> php(s, instruction)
      [] instruction.instruction_type = "PLP" -> plp(s, instruction)
      [] instruction.instruction_type = "JMP" -> jmp(s, instruction)
      [] instruction.instruction_type = "JSR" -> jsr(s, instruction)
      [] instruction.instruction_type = "LSR" -> lsr(s, instruction)
      [] instruction.instruction_type = "ROL" -> rol(s, instruction)
      [] instruction.instruction_type = "ROR" -> ror(s, instruction)
      [] instruction.instruction_type = "RTI" -> rti(s, instruction)
      [] instruction.instruction_type = "RTS" -> rts(s, instruction)
      [] instruction.instruction_type = "SBC" -> sbc(s, instruction)
      [] instruction.instruction_type = "NotImplemented" -> nop(s, instruction)
      [] OTHER -> Unmodelled(s)

----------------------------------------------------------------------------
(* CPU: construction and the run loop *)

new_with_state(s, pc, sp, ra, rx, ry, st) ==
    [s EXCEPT !.program_counter = pc, !.stack_pointer = sp, !.a = ra, !.x = rx,
              !.y = ry, !.processor_status = st, !.phase = "cpu"]

\* an observer that is never called
callback_never(s, instruction) == s

\* the observer: start_with_callback hands it the CPU and the descriptor
callback(s, instruction) ==
    [s EXCEPT !.iter.callbacks = @ + 1,
              !.iter.observed = <<s.program_counter, s.a, s.x, s.y, s.stack_pointer,
                                  s.processor_status, s.bus_cycles, instruction>>]

\* one pass through the body of the loop of start_with_callback
start_with_callback(s) ==
    LET program_counter_state == s.program_counter
        unwound(s9) == [s9 EXCEPT !.phase = "unwound"]
        decoded(s1) ==
            LET instruction == get_instruction_from_opcode(s1.val)
                nmi == poll_nmi_status(s1)
                s2 == [s1 EXCEPT !.iter.opcode = s1.val,
                                 !.iter.polled = nmi,
                                 !.iter.cycle = instruction.cycle,
                                 !.iter.plus_cycle = instruction.plus_cycle]
                ticked(s7) == IF ~Ok(s7) THEN unwound(s7) ELSE s7
                broken(s6, cycles) ==
                    IF ~Ok(s6) THEN unwound(s6)
                    ELSE ticked(MemoryBus_tick([s6 EXCEPT !.iter.ticked = TRUE,
                                                          !.iter.cycles = cycles],
                                               cycles))
                called_back(s5) ==
                    broken(IF HasBits(s5.processor_status, BREAK)
                           THEN interrupt(s5, BRK)
                           ELSE s5,
                           s5.cycles)
                executed(s4) ==
                    IF ~Ok(s4) THEN unwound(s4)
                    ELSE called_back(callback([s4 EXCEPT !.iter.executed = TRUE],
                                              instruction))
                polled(s3) ==
                    IF ~Ok(s3) THEN unwound(s3)
                    ELSE IF /\ instruction.instruction_type = "NotImplemented"
                            /\ instruction.op_code = OPCODE_EXIT
                    THEN [s3 EXCEPT !.phase = "returned"]
                    ELSE executed(execute(s3, instruction))
            IN  IF ~Ok(s1) THEN unwound(s1)
                ELSE polled(IF nmi = "NMI" THEN interrupt(s2, NMI) ELSE s2)
    IN  decoded(read_next_byte(
            [s EXCEPT !.steps = @ + 1,
                      !.iter = [NoIter EXCEPT !.pc0 = program_counter_state,
                                              !.fetched_from = s.program_counter]]))

----------------------------------------------------------------------------
(* Cartridges of the model.  Both have the NMI handler RTI at 0x9000 and the  *)
(* halt opcode as the BRK handler at 0x9010.                                  *)

Rom(bytes) == [len |-> 32768, bytes |-> bytes]

NoRom == [len |-> 0, bytes |-> NoBytes]

Handlers ==
    (4096 :> 64) @@ (4112 :> 244) @@
    (32762 :> 0) @@ (32763 :> 144) @@ (32766 :> 16) @@ (32767 :> 144)

\* 8000: NOP; 8001: halt
InterruptProgram == Rom([i \in {0, 1} |-> <<234, 244>>[i + 1]] @@ Handlers)

\* 8000: LDA $80FF,X; 8003: LDA $10,X; 8005: LDY $80FF,X; 8008: LDX $80FF,Y;
\* 800B: PHP; 800C: PLP; 800D: halt; the byte at 8100 is 1
TimingProgram ==
    Rom([i \in 0..13 |-> <<189, 255, 128, 181, 16, 188, 255, 128, 190, 255, 128,
                           8, 40, 244>>[i + 1]]
        @@ (256 :> 1) @@ Handlers)

Programs == {InterruptProgram, TimingProgram}

\* fake_rom of the unit tests: 32 KiB with game_code at its start, four halt
\* opcodes at 0x7FF0 as the BRK handler and the BRK vector set to 0xFFF0
fake_rom(game_code) ==
    Rom([i \in 32752 .. 32755 |-> OPCODE_EXIT]
        @@ (32766 :> 240) @@ (32767 :> 255)
        @@ [i \in {j \in 0 .. Len(game_code) - 1 : game_code[j + 1] # 0} |-> game_code[i + 1]])

\* a unit test's CPU: t.code at t.pc, in the cartridge through fake_rom or in
\* RAM through the bus like the cells of t.ram, CPU::new, the public registers
\* then set by the test; the program counter stands after the opcode byte,
\* where the loop leaves it when it calls the instruction's method
test_cpu(s, t) ==
    LET in_rom == t.pc >= 32768
        game_code == IF in_rom THEN [i \in 1 .. t.pc - 32768 |-> 0] \o t.code ELSE <<>>
        cells == IF in_rom THEN t.ram
                 ELSE [i \in t.pc .. t.pc + Len(t.code) - 1 |-> t.code[i - t.pc + 1]] @@ t.ram
    IN  new_with_state([s EXCEPT !.prg_rom = fake_rom(game_code),
                                 !.memory = [i \in {k \in DOMAIN cells : cells[k] # 0}
                                                |-> cells[i]]],
                       t.pc + 1, t.sp, t.a, t.x, t.y, t.st)

\* operand bytes and status bytes the tests of the arithmetic run with
OperandArgs == {0, 1, 15, 16, 63, 64, 127, 128, 129, 192, 240, 254, 255}
FlagArgs == {36, 37, 230, 231}

\* ADC #m and SBC #m
ArithmeticTests ==
    {[code |-> <<op_code, data>>, pc |-> 32768, sp |-> 253, a |-> ra, x |-> 0, y |-> 0, st |-> st,
      ram |-> NoBytes] :
        op_code \in {105, 233}, ra \in 0 .. 255, data \in OperandArgs, st \in FlagArgs}

\* ASL, LSR, ROL and ROR on the accumulator and on the zero-page cell 0x10
ShiftTests ==
    {[code |-> <<op_code>>, pc |-> 32768, sp |-> 253, a |-> ra, x |-> 0, y |-> 0, st |-> st,
      ram |-> NoBytes] :
        op_code \in {10, 42, 74, 106}, ra \in 0 .. 255, st \in {36, 37}}
    \cup
    {[code |-> <<op_code, 16>>, pc |-> 32768, sp |-> 253, a |-> 0, x |-> 0, y |-> 0, st |-> st,
      ram |-> (16 :> data)] :
        op_code \in {6, 38, 70, 102}, data \in 0 .. 255, st \in {36, 37}}

\* JMP (p) with a byte at p, 0x12 at p + 1 and 0x40 at the start of p's page;
\* p in RAM, or in the cartridge, where the bytes are those of the program
JumpTests ==
    {[code |-> <<108, p % 256, p \div 256>>, pc |-> 32768, sp |-> 253, a |-> 0, x |-> 0, y |-> 0,
      st |-> 36,
      ram |-> IF p < 2048
              THEN (p :> lo) @@ ((p + 1) % 2048 :> 18) @@ ((p \div 256) * 256 :> 64)
              ELSE NoBytes] :
        p \in {255, 767, 768, 784, 2047, 33023, 32768}, lo \in {0, 52}}

\* PLP and RTI with any byte on top of the stack, below it for RTI the
\* word 0x8123
RestoreTests ==
    {[code |-> <<op_code>>, pc |-> 32768, sp |-> 250, a |-> 0, x |-> 0, y |-> 0, st |-> st,
      ram |-> (507 :> data) @@ (508 :> 35) @@ (509 :> 129)] :
        op_code \in {40, 64}, data \in 0 .. 255, st \in {36, 219}}

\* interrupt entry at the program counter entry, with the NMI vector 0x9234
\* in the cartridge (the IRQ/BRK vector of fake_rom is 0xFFF0)
InterruptTests ==
    {[code |-> <<52, 146>>, pc |-> 65530, sp |-> sp, a |-> 17, x |-> 34, y |-> 51, st |-> st,
      ram |-> NoBytes, entry |-> entry] :
        sp \in {253, 2, 1, 0}, st \in {32, 36, 235, 239}, entry \in {32769, 4660}}

\* JSR at p, in the cartridge or in RAM, to an RTS in RAM
CallTests ==
    {[code |-> <<32, target % 256, target \div 256>>, pc |-> p, sp |-> sp,
      a |-> 0, x |-> 0, y |-> 0, st |-> 36, ram |-> (target :> 96)] :
        p \in {32768, 33021, 33022, 512, 1790}, sp \in {253, 1, 0},
        target \in {1536, 2047}}

\* loads through the indexed and the zero-page modes: LDA b,X and LDX b,Y,
\* LDA z, LDA z,X and LDX z,Y, the index in both index registers
AddressTests ==
    {[code |-> <<op_code, base % 256, base \div 256>>, pc |-> 32768, sp |-> 253,
      a |-> 0, x |-> index, y |-> index, st |-> 36, ram |-> NoBytes] :
        op_code \in {189, 190}, base \in {255, 512, 640, 767, 65535},
        index \in {0, 1, 128, 255}}
    \cup
    {[code |-> <<op_code, base>>, pc |-> 32768, sp |-> 253,
      a |-> 0, x |-> index, y |-> index, st |-> 36, ram |-> NoBytes] :
        op_code \in {165, 181, 182}, base \in {0, 16, 128, 255},
        index \in {0, 1, 128, 255}}

\* the eight branches at p with offset byte d, under each flag alone, none
\* and all
BranchTests ==
    {[code |-> <<op_code, d>>, pc |-> p, sp |-> 253, a |-> 17, x |-> 34, y |-> 51,
      st |-> st, ram |-> NoBytes] :
        op_code \in {16, 48, 80, 112, 144, 176, 208, 240}, p \in {0, 32768, 65504},
        d \in {0, 2, 127, 128, 254, 255}, st \in {36, 37, 38, 100, 164, 231}}

\* opcodes without a table entry, followed by a byte, in the cartridge and in
\* RAM
SentinelTests ==
    {[code |-> <<op_code, data>>, pc |-> p, sp |-> 253, a |-> 17, x |-> 34, y |-> 51,
      st |-> st, ram |-> NoBytes] :
        op_code \in {2, 18, 128, 243, 250, 252}, data \in {0, 255}, p \in {512, 32768},
        st \in {36, 231}}

\* PHP with the break flag clear
PhpTests ==
    {[code |-> <<8>>, pc |-> 32768, sp |-> sp, a |-> 0, x |-> 0, y |-> 0, st |-> st,
      ram |-> NoBytes] :
        sp \in {253, 0}, st \in {32, 36, 235, 239}}

\* BRK in the cartridge and in RAM, interrupt-disable clear and set
BreakTests ==
    {[code |-> <<0>>, pc |-> p, sp |-> sp, a |-> 17, x |-> 34, y |-> 51, st |-> st,
      ram |-> NoBytes] :
        p \in {1536, 32768}, sp \in {253, 1}, st \in {32, 36, 235, 239}}

\* instructions at the top of the address space, where fake_rom has put the
\* BRK vector 0xFFF0: the bytes 0xF0 0xFF at 0xFFFE are BEQ -1, the byte before
\* them makes JSR $FFF0 at 0xFFFD; and RTS with the word 0xFFFF on the stack
WrapTests ==
    {[code |-> <<240, 255>>, pc |-> 65534, sp |-> 253, a |-> 1, x |-> 0, y |-> 0,
      st |-> st, ram |-> NoBytes] : st \in {36, 38}}
    \cup
    {[code |-> <<32, 240, 255>>, pc |-> 65533, sp |-> 253, a |-> 1, x |-> 0, y |-> 0,
      st |-> 36, ram |-> NoBytes],
     [code |-> <<96>>, pc |-> 32768, sp |-> 253, a |-> 1, x |-> 0, y |-> 0,
      st |-> 36, ram |-> (510 :> 255) @@ (511 :> 255)]}

InsnTests ==
    ArithmeticTests \cup ShiftTests \cup JumpTests \cup RestoreTests \cup CallTests
        \cup AddressTests \cup BranchTests \cup PhpTests

\* registers handed to CPU::new_with_state
IndexArgs == {0, 1}
StatusArgs == {32, 36}
\* argument of the harness's MemoryBus::tick calls
SetupTickArgs == {85}

----------------------------------------------------------------------------
(* Specifications *)

Constructed(rom) ==
    /\ scanline = 0
    /\ ppu_cycles = 0
    /\ ctrl = 0
    /\ status = 0
    /\ nmi_interrupt = "None"
    /\ bus_cycles = 0
    /\ memory = NoBytes
    /\ prg_rom = rom
    /\ program_counter = 0
    /\ stack_pointer = 0
    /\ a = 0
    /\ x = 0
    /\ y = 0
    /\ processor_status = 0
    /\ phase = "bus"
    /\ op = "new"
    /\ args = <<>>
    /\ ret = "unit"
    /\ fault = "none"
    /\ raised = FALSE
    /\ aborted = FALSE
    /\ iter = NoIter
    /\ steps = 0
    /\ nmi_unserviced = FALSE

(* The graphics unit driven through its own interface *)

InitPPU == Constructed(NoRom) /\ debug_build = FALSE /\ test_build = FALSE

PpuTick == \E cycles \in TickArgs : Becomes(PPU_tick(Machine, cycles), "PPU::tick")

PpuWriteControl ==
    \E data \in CtrlData :
        Becomes(write_register_Controller(Machine, data), "PPU::write_register")

\* the status port is register 0x2002
PpuReadStatus ==
    LET s == PPU_read_register(Machine, 8194)
    IN  Becomes([s EXCEPT !.ret = s.val], "PPU::read_register")

NextPPU == PpuTick \/ PpuWriteControl \/ PpuReadStatus

SpecPPU == InitPPU /\ [][NextPPU]_vars

(* The bus clock driven through MemoryBus::tick *)

InitBus == Constructed(NoRom) /\ debug_build \in BOOLEAN /\ test_build = FALSE

BusTick ==
    \E cycles \in BusTickArgs :
        /\ bus_cycles + cycles <= MaxBusCycles
        /\ Becomes(MemoryBus_tick(Machine, cycles), "MemoryBus::tick")

NextBus == BusTick

SpecBus == InitBus /\ [][NextBus]_vars

(* The descriptor lookup applied to each opcode a byte can hold *)

InitLookup == Constructed(NoRom) /\ debug_build = FALSE /\ test_build = FALSE

\* the run loop calls the lookup with the byte it fetched (cpu/mod.rs:92)
Lookup ==
    \E op_code \in 0 .. 255 :
        Becomes(With([Machine EXCEPT !.ret = get_instruction_from_opcode(op_code)],
                     <<op_code>>),
                "get_instruction_from_opcode")

NextLookup == Lookup

SpecLookup == InitLookup /\ [][NextLookup]_vars

(* The instruction methods called as the unit tests of cpu/mod.rs call them *)

InitInsn == Constructed(NoRom) /\ debug_build \in BOOLEAN /\ test_build = TRUE

Execute ==
    /\ op = "new"
    /\ \E t \in InsnTests :
           LET done(s) == Becomes(With([s EXCEPT !.ret = s.cycles], <<t>>), "CPU::execute")
           IN  done(execute(test_cpu(Machine, t), get_instruction_from_opcode(t.code[1])))

\* an instruction whose bytes end at the top of the address space
ExecuteAtTop ==
    /\ op = "new"
    /\ \E t \in WrapTests :
           LET done(s) ==
                   Becomes(With([s EXCEPT !.ret = s.cycles], <<t>>), "CPU::execute at top")
           IN  done(execute(test_cpu(Machine, t), get_instruction_from_opcode(t.code[1])))

\* CPU::interrupt called for each kind of interrupt
InterruptEntry ==
    /\ op = "new"
    /\ \E t \in InterruptTests, int \in {NMI, IRQ, BRK} :
           Becomes(With(interrupt([test_cpu(Machine, t) EXCEPT !.program_counter = t.entry],
                                  int),
                        <<t, int>>),
                   "CPU::interrupt")

\* RTI executed right after the call of CPU::interrupt
ReturnFromInterrupt ==
    /\ op = "CPU::interrupt" /\ fault = "none"
    /\ LET done(s) == Becomes(With([s EXCEPT !.ret = s.cycles], args), "CPU::rti")
       IN  done(execute(Machine, get_instruction_from_opcode(64)))

\* a whole turn of the loop on an opcode without a table entry and on BRK
Turn ==
    /\ op = "new"
    /\ \E t \in SentinelTests \cup BreakTests :
           Becomes(With(start_with_callback([test_cpu(Machine, t)
                                                EXCEPT !.program_counter = t.pc]),
                        <<t>>),
                   "CPU::start_with_callback")

\* the address and the page-cross indicator of an instruction's operand
GetAddress ==
    /\ op = "new"
    /\ \E t \in AddressTests :
           LET done(s) ==
                   Becomes(With([s EXCEPT !.ret = [addr |-> s.addr,
                                                   page_cross |-> s.page_cross]],
                                <<t>>),
                           "CPU::get_address")
           IN  done(get_address(test_cpu(Machine, t),
                                get_instruction_from_opcode(t.code[1]).memory_addressing_mode))

\* the next turn of the loop after a JSR: the opcode at the program counter
ExecuteNext ==
    /\ op = "CPU::execute" /\ fault = "none" /\ args[1].code[1] = 32
    /\ LET done(s) == Becomes(With([s EXCEPT !.ret = s.cycles], args), "CPU::execute next")
           fetched(s) == done(execute(s, get_instruction_from_opcode(s.val)))
       IN  fetched(read_next_byte(Machine))

NextInsn == Execute \/ ExecuteNext \/ GetAddress \/ Turn \/ ExecuteAtTop \/ InterruptEntry
                \/ ReturnFromInterrupt

SpecInsn == InitInsn /\ [][NextInsn]_vars

(* The stack methods called as test_stack calls them: args holds the stack   *)
(* pointer at the start, the bytes pushed and the bytes the pops returned    *)

InitStack == Constructed(NoRom) /\ debug_build \in BOOLEAN /\ test_build = TRUE

\* the bytes of test_stack, any of its first three in the first three pushes;
\* after 0x20, 0x34, 0x56 the test goes on pushing, a different byte each time
PushArgs(sp, pushed) ==
    IF Len(pushed) < 3 THEN {32, 52, 86}
    ELSE IF sp = 253 /\ SubSeq(pushed, 1, 3) = <<32, 52, 86>>
    THEN {(Len(pushed) * 7 + 99) % 256}
    ELSE {}

StackNew ==
    /\ op = "new"
    /\ \E sp \in {253, 1} :
           Becomes(With(test_cpu(Machine, [code |-> <<133, 4, 0>>, pc |-> 32768, sp |-> sp,
                                           a |-> 0, x |-> 0, y |-> 0, st |-> 36,
                                           ram |-> NoBytes]),
                        <<sp, <<>>, <<>>>>),
                   "CPU::new")

Push ==
    /\ op \in {"CPU::new", "CPU::push"}
    /\ Len(args[2]) < MaxPushes
    /\ \E byte \in PushArgs(args[1], args[2]) :
           Becomes(With(push(Machine, byte), <<args[1], Append(args[2], byte), <<>>>>),
                   "CPU::push")

Pop ==
    /\ op \in {"CPU::push", "CPU::pop"}
    /\ Len(args[3]) < Len(args[2])
    /\ LET done(s) ==
               Becomes(With([s EXCEPT !.ret = s.val],
                            <<args[1], args[2], Append(args[3], s.val)>>),
                       "CPU::pop")
       IN  done(pop(Machine))

PushWord ==
    /\ op = "CPU::new"
    /\ \E word \in {0, 255, 4095, 4660, 65280, 65535} :
           Becomes(With(push_word(Machine, word), <<args[1], <<word>>, <<>>>>),
                   "CPU::push_word")

PopWord ==
    /\ op = "CPU::push_word"
    /\ LET done(s) == Becomes(With([s EXCEPT !.ret = s.val], args), "CPU::pop_word")
       IN  done(pop_word(Machine))

NextStack == StackNew \/ Push \/ Pop \/ PushWord \/ PopWord

SpecStack == InitStack /\ [][NextStack]_vars

(* The bus driven through its byte and word accesses *)

InitMem ==
    /\ \E rom \in {Rom(Handlers), [Rom(Handlers) EXCEPT !.len = 16384]} : Constructed(rom)
    /\ debug_build \in BOOLEAN
    /\ test_build \in BOOLEAN

BusReadByte ==
    \E address \in BusAddrs :
        /\ phase = "bus"
        /\ LET s == MemoryBus_read_byte(Machine, address)
           IN  Becomes(With([s EXCEPT !.ret = IF Ok(s) THEN s.val ELSE "unit"], <<address>>),
                       "MemoryBus::read_byte")

BusWriteByte ==
    \E address \in BusAddrs, data \in BusBytes :
        /\ phase = "bus"
        /\ Becomes(With(MemoryBus_write_byte(Machine, address, data), <<address, data>>),
                   "MemoryBus::write_byte")

BusWriteWord ==
    \E address \in BusWordAddrs, word \in BusWords :
        /\ phase = "bus"
        /\ Becomes(With(MemoryBus_write_word(Machine, address, word), <<address, word>>),
                   "MemoryBus::write_word")

NextMem == BusReadByte \/ BusWriteByte \/ BusWriteWord

SpecMem == InitMem /\ [][NextMem]_vars

(* A harness prepares a bus, hands it to a CPU and runs the loop *)

InitCPU ==
    /\ \E rom \in Programs : Constructed(rom)
    /\ debug_build \in BOOLEAN
    /\ test_build = FALSE

SetupTick ==
    \E cycles \in SetupTickArgs :
        /\ phase = "bus"
        /\ bus_cycles + cycles <= MaxSetupCycles
        /\ Becomes(MemoryBus_tick(Machine, cycles), "MemoryBus::tick")

SetupWriteControl ==
    \E data \in CtrlData :
        /\ phase = "bus"
        /\ Becomes(MemoryBus_write_byte(Machine, 8192, data), "MemoryBus::write_byte")

NewWithState ==
    \E rx \in IndexArgs, st \in StatusArgs :
        /\ phase = "bus"
        /\ Becomes(new_with_state(Machine, 32768, 253, 0, rx, 0, st), "CPU::new_with_state")

Iteration ==
    /\ phase = "cpu"
    /\ steps < MaxIterations
    /\ Becomes(start_with_callback(Machine), "CPU::start_with_callback")

NextCPU == SetupTick \/ SetupWriteControl \/ NewWithState \/ Iteration

SpecCPU == InitCPU /\ [][NextCPU]_vars

\* every run stays within the ports and opcodes the model follows
ModelCovers == fault # "outside the model"

----------------------------------------------------------------------------
(* Claims about the graphics unit *)

\* C3: a write to the control port that turns the generate-NMI bit from off
\* to on while the status has the vblank flag set makes poll_nmi_status
\* return Some(NMI) right after the write; any other control write leaves
\* the pending interrupt as it was.
C3_ControlWriteRaisesOnEdgeInVblank ==
    [][op' = "PPU::write_register" =>
         IF ~generate_vblank_nmi(ctrl) /\ generate_vblank_nmi(ctrl') /\ is_in_vblank(status)
         THEN poll_nmi_status(Machine)' = "NMI" /\ raised'
         ELSE poll_nmi_status(Machine)' = poll_nmi_status(Machine) /\ ~raised']_vars

C3_Witness ==
    /\ op = "PPU::write_register"
    /\ raised
    /\ poll_nmi_status(Machine) = "NMI"
    /\ is_in_vblank(status)

\* C5: the vblank flag becomes set in exactly the ticks that move the
\* scanline counter from 240 to 241, with the generate-NMI bit set or clear.
C5_VblankFlagSetAtEntry ==
    [][op' = "PPU::tick" =>
         ((~is_in_vblank(status) /\ is_in_vblank(status'))
             <=> (scanline = VblankScanline - 1 /\ scanline' = VblankScanline))]_vars

\* C6: with the generate-NMI bit set, the tick that moves the scanline counter
\* to 241 ends without a panic and leaves Some(NMI) for poll_nmi_status.
C6_VblankEntryLeavesPendingNmi ==
    [][(/\ op' = "PPU::tick"
        /\ generate_vblank_nmi(ctrl)
        /\ scanline = VblankScanline - 1
        /\ scanline' = VblankScanline)
         => (fault' = "none" /\ poll_nmi_status(Machine)' = "NMI")]_vars

\* C8: after any sequence of PPU::tick calls the scan cycle counter is in
\* 0..340 and the scanline counter in 0..261.
C8_CountersInRange ==
    /\ ppu_cycles \in 0..(CyclesPerScanline - 1)
    /\ scanline \in 0..(ScanlinesPerFrame - 1)

C8_Witness ==
    /\ op = "PPU::tick"
    /\ scanline = ScanlinesPerFrame - 1
    /\ ppu_cycles + 11 >= CyclesPerScanline

----------------------------------------------------------------------------
(* Claims about the bus clock *)

\* C7: after any sequence of MemoryBus::tick calls no call has panicked and
\* the graphics unit stands at three times the bus cycle total, counted
\* modulo one frame: scanline * 341 + cycle position = 3 * cycles mod 341 * 262.
C7_GraphicsUnitAdvancesThreefold ==
    /\ ~aborted
    /\ scanline * CyclesPerScanline + ppu_cycles
           = (3 * bus_cycles) % (CyclesPerScanline * ScanlinesPerFrame)

----------------------------------------------------------------------------
(* Claims about the run loop *)

\* the target the cartridge gives for the NMI vector
NmiTarget ==
    Load(prg_rom.bytes, NMI_VECTOR - 32768)
        + 256 * Load(prg_rom.bytes, NMI_VECTOR + 1 - 32768)

\* C1: a loop iteration that services a pending interrupt does so before it
\* fetches an opcode: the program counter it pushes is the one the iteration
\* began with, and the instruction it then executes was fetched from the
\* target of the interrupt vector.
C1_InterruptServicedBeforeFetch ==
    (op = "CPU::start_with_callback" /\ iter.nmi_entered) =>
        /\ iter.pushed_pc = iter.pc0
        /\ iter.executed => iter.fetched_from = NmiTarget

\* C2: a loop iteration that polls a pending NMI services it, whatever the
\* interrupt-disable flag: it pushes program counter and status, and where no
\* instruction runs after the service the program counter is the target of
\* the vector at 0xFFFA.
C2_PolledNmiIsServiced ==
    (op = "CPU::start_with_callback" /\ iter.polled = "NMI") =>
        /\ iter.nmi_entered
        /\ (fault = "none" /\ ~iter.executed) => program_counter = NmiTarget

\* C4: poll_nmi_status returns Some(NMI) only for an NMI that interrupt(&NMI)
\* has not serviced yet: servicing consumes the pending indication.
C4_ServiceConsumesPendingNmi == nmi_interrupt = "NMI" => nmi_unserviced

\* C10: the cycle count the loop passes to bus.tick is the descriptor's base
\* cycle count, plus 1 exactly when the descriptor has plus_cycle and the
\* resolved address lies in another page than the address before indexing.
C10_CyclesAreBasePlusPageCross ==
    (op = "CPU::start_with_callback" /\ iter.ticked) =>
        iter.cycles = iter.cycle
            + (IF /\ iter.plus_cycle
                  /\ iter.resolved
                  /\ iter.base_addr \div 256 # iter.eff_addr \div 256
               THEN 1 ELSE 0)

C13_CallbackOncePerInstruction ==
    op = "CPU::start_with_callback" =>
        /\ iter.callbacks = (IF iter.executed THEN 1 ELSE 0)
        /\ iter.executed =>
               /\ iter.observed[8] = get_instruction_from_opcode(iter.opcode)
               /\ ~HasBits(iter.observed[6], BREAK) =>
                      SubSeq(iter.observed, 1, 6)
                          = <<program_counter, a, x, y, stack_pointer, processor_status>>
               /\ iter.ticked => iter.observed[7] + iter.cycles = bus_cycles

C13_Witness ==
    /\ op = "CPU::start_with_callback"
    /\ iter.executed
    /\ iter.callbacks = 1
    /\ iter.resolved
    /\ iter.ticked
    /\ iter.cycles > 0

-----------------------------------------------------------------------------
(* Claims about the descriptor table *)

\* C20: get_instruction_from_opcode returns a descriptor without aborting
\* for every opcode in 0..=255, and an opcode the opcode specification does
\* not define gets the 'not implemented' sentinel, whose base cycle count
\* is 0.
C20_UndefinedOpcodesGetSentinel ==
    op = "get_instruction_from_opcode" =>
        /\ fault = "none"
        /\ args[1] \notin DocumentedOpcodes =>
               /\ ret.instruction_type = "NotImplemented"
               /\ ret.cycle = 0

\* the operand bytes a descriptor declares: bytes counts the opcode byte too,
\* as in the ISB entry of ILLEGAL_CODES (2 bytes, one operand byte)
operand_bytes(instruction) == instruction.bytes - 1

\* C21: for every opcode the descriptor's declared byte count agrees with
\* its addressing mode: Immediate has exactly 1 operand byte and Absolute
\* exactly 2, for the sentinel entries of unmapped opcodes too.
C21_BytesAgreeWithMode ==
    op = "get_instruction_from_opcode" =>
        /\ ret.memory_addressing_mode = "Immediate" => operand_bytes(ret) = 1
        /\ ret.memory_addressing_mode = "Absolute" => operand_bytes(ret) = 2

-----------------------------------------------------------------------------
(* Claims about the status port *)

\* C19: reading the status port returns the status byte and leaves the
\* vblank flag cleared (the claim's third clause, the reset of the two write
\* latches, concerns state this formula does not need).
C19_StatusReadClearsVblank ==
    [][op' = "PPU::read_register" =>
          /\ fault' = "none"
          /\ ret' = status
          /\ ~is_in_vblank(status')]_vars

-----------------------------------------------------------------------------
(* Claims about the bus accesses *)

\* what read_byte and read_word would return in the current state
ReadAt(address) == MemoryBus_read_byte(Machine, address)
ReadWordAt(address) == MemoryBus_read_word(Machine, address)

\* addresses of the RAM window, in each of its four images
RamProbes == {0, 1, 2047, 2048, 2049, 4095, 4096, 6143, 6144, 8191}

\* C14: after write_byte(a, v) with a in 0x0000..=0x1FFF, read_byte returns v
\* at a & 0x07FF and at every address of the window congruent to a modulo
\* 0x0800, and no RAM cell at another offset changes.
C14_RamMirrorsEvery2KiB ==
    [][\A address \in BusAddrs, data \in BusBytes :
          (op' = "MemoryBus::write_byte" /\ args' = <<address, data>> /\ address <= RAM_MIRRORS_END) =>
              /\ fault' = "none"
              /\ ReadAt(address % 2048)'.val = data
              /\ \A b \in RamProbes :
                     /\ ReadAt(b)'.fault = "none"
                     /\ ReadAt(b)'.val = IF b % 2048 = address % 2048 THEN data ELSE ReadAt(b).val
              /\ \A i \in (DOMAIN memory \cup DOMAIN memory') \ {address % 2048} :
                     Load(memory', i) = Load(memory, i)]_vars

C14_Witness ==
    /\ op = "MemoryBus::write_byte" /\ args = <<8191, 128>> /\ fault = "none"
    /\ ReadAt(2047).val = 128 /\ ReadAt(4095).val = 128
    /\ ReadAt(0).val = 128

\* the word written last reads back, low byte at the address and high byte
\* at the next one
WordReadsBack ==
    /\ fault = "none"
    /\ ReadWordAt(args[1]).fault = "none"
    /\ ReadWordAt(args[1]).val = args[2]
    /\ ReadAt(args[1]).val = args[2] % 256
    /\ ReadAt((args[1] + 1) % 65536).val = args[2] \div 256

\* C15: for all 16-bit addresses a and values v, write_word(a, v) followed
\* by read_word(a) returns v, stored little-endian at a and a + 1.
C15_WordReadsBackEverywhere ==
    op = "MemoryBus::write_word" => WordReadsBack

\* C15, for the addresses whose two bytes lie in the RAM window
C15_WordReadsBackInRam ==
    (op = "MemoryBus::write_word" /\ args[1] < RAM_MIRRORS_END) => WordReadsBack

C15_Witness ==
    /\ op = "MemoryBus::write_word" /\ args = <<2047, 33023>> /\ fault = "none"
    /\ Load(memory, 2047) = 255 /\ Load(memory, 0) = 128

PortEffect(s) == <<s.ctrl, s.status, s.nmi_interrupt, s.fault, IF Ok(s) THEN s.val ELSE 0>>

\* C17: a bus read or write at an address a in 0x2000..=0x3FFF reaches the
\* register, and has the effect, of the access at 0x2000 + (a mod 8).
C17_PortsMirrorEvery8 ==
    [][(args'[1] >= 8192 /\ args'[1] <= PPU_REGISTERS_MIRRORS_END) =>
          /\ op' = "MemoryBus::write_byte" =>
                 <<ctrl', status', nmi_interrupt', fault'>> =
                     SubSeq(PortEffect(MemoryBus_write_byte(Machine, 8192 + (args'[1] % 8),
                                                            args'[2])), 1, 4)
          /\ op' = "MemoryBus::read_byte" =>
                 <<ctrl', status', nmi_interrupt', fault', IF fault' = "none" THEN ret' ELSE 0>> =
                     PortEffect(MemoryBus_read_byte(Machine, 8192 + (args'[1] % 8)))]_vars

\* C18: read_byte of an address outside every decoded range (0x4000..=0x7FFF
\* except 0x4014) is not fatal: it returns 0 and leaves bus, RAM and graphics
\* unit as they were.
C18_UndecodedReadIsNoOp ==
    [][(op' = "MemoryBus::read_byte" /\ args'[1] >= 16384 /\ args'[1] <= 32767
            /\ args'[1] # OAM_DMA) =>
          /\ fault' = "none" /\ ret' = 0
          /\ UNCHANGED <<memory, prg_rom, bus_cycles, ctrl, status, nmi_interrupt,
                         scanline, ppu_cycles>>]_vars

-----------------------------------------------------------------------------
(* Claims about the instruction methods *)

\* the flags of the status register as a set
Flags(byte) == {mask \in {CARRY, ZERO, INTERRUPT_DISABLE, DECIMAL, BREAK, BREAK2,
                          OVERFLOW, NEGATIVE} : HasBits(byte, mask)}

\* the test a state of SpecInsn results from, when it ran opcode op_code
Ran(op_codes) == op = "CPU::execute" /\ args[1].code[1] \in op_codes

\* C22: ADC leaves (a + m + c) mod 256 in the accumulator, sets carry iff
\* a + m + c > 255, overflow iff a and m have the same sign bit and the
\* result the other one, and zero and negative from the result.
C22_AdcSumCarryOverflow ==
    Ran({105}) =>
        LET ra == args[1].a
            data == args[1].code[2]
            carry == IF HasBits(args[1].st, CARRY) THEN 1 ELSE 0
            result == (ra + data + carry) % 256
        IN  /\ fault = "none"
            /\ a = result
            /\ HasBits(processor_status, CARRY) <=> ra + data + carry > 255
            /\ HasBits(processor_status, OVERFLOW) <=>
                   /\ (ra >= 128) = (data >= 128)
                   /\ (result >= 128) # (ra >= 128)
            /\ HasBits(processor_status, ZERO) <=> result = 0
            /\ HasBits(processor_status, NEGATIVE) <=> result >= 128
            /\ Flags(processor_status) \ {CARRY, OVERFLOW, ZERO, NEGATIVE}
                   = Flags(args[1].st) \ {CARRY, OVERFLOW, ZERO, NEGATIVE}

\* a = 0xFF, m = 0x10, c = 0 gives a = 0x0F, carry set, overflow clear
C22_Witness ==
    /\ Ran({105}) /\ args[1].a = 255 /\ args[1].code[2] = 16 /\ args[1].st = 36
    /\ a = 15 /\ HasBits(processor_status, CARRY) /\ ~HasBits(processor_status, OVERFLOW)

\* C23: JMP (p) with the low byte of p equal to 0xFF sets the program counter
\* to the byte at p plus 256 times the byte at p & 0xFF00; for any other p
\* it is the byte at p plus 256 times the byte at p + 1.
C23_JmpIndirectWrapsInPage ==
    Ran({108}) =>
        LET p == args[1].code[2] + 256 * args[1].code[3]
            high == IF p % 256 = 255 THEN (p \div 256) * 256 ELSE p + 1
        IN  /\ fault = "none"
            /\ program_counter = ReadAt(p).val + 256 * ReadAt(high).val

\* JMP ($02FF) with 0x00 at 0x02FF, 0x40 at 0x0200 and 0x12 at 0x0300
C23_Witness ==
    /\ Ran({108}) /\ args[1].code = <<108, 255, 2>>
    /\ args[1].ram = (767 :> 0) @@ (768 :> 18) @@ (512 :> 64)
    /\ program_counter = 16384

\* C25: after PLP and after RTI the status register has break2 set and break
\* clear, and its other six flags are those of the byte popped from the
\* stack, whatever that byte was.
C25_RestoredStatusForcesBreakBits ==
    Ran({40, 64}) =>
        /\ fault = "none"
        /\ Flags(processor_status) = (Flags(args[1].ram[507]) \ {BREAK}) \cup {BREAK2}
        /\ stack_pointer = IF args[1].code[1] = 40 THEN 251 ELSE 253
        /\ args[1].code[1] = 64 => program_counter = 33059

\* the byte 0xDF (break set) popped by PLP over a status of 0x24
C25_Witness ==
    /\ Ran({40}) /\ args[1].ram[507] = 223 /\ args[1].st = 36
    /\ processor_status = 239

\* C26: JSR at p pushes p + 2 as a word, high byte first, and jumps to its
\* operand; the RTS that follows with the stack as JSR left it sets the
\* program counter to p + 3 and the stack pointer to its value before the JSR.
C26_JsrRtsReturnAfterCall ==
    LET p == args[1].pc
        sp == args[1].sp
    IN  /\ Ran({32}) =>
               /\ fault = "none"
               /\ program_counter = args[1].code[2] + 256 * args[1].code[3]
               /\ stack_pointer = (sp + 254) % 256
               /\ Load(memory, STACK + sp) = (p + 2) \div 256
               /\ Load(memory, STACK + ((sp + 255) % 256)) = (p + 2) % 256
        /\ op = "CPU::execute next" =>
               /\ fault = "none"
               /\ program_counter = p + 3
               /\ stack_pointer = sp

\* JSR at 0x80FD returns to 0x8100, with a stack pointer that wrapped
C26_Witness ==
    /\ op = "CPU::execute next" /\ args[1].pc = 33021 /\ args[1].sp = 0
    /\ program_counter = 33024 /\ stack_pointer = 0
    /\ Load(memory, 256) = 128 /\ Load(memory, 511) = 255

\* C27: after ASL, LSR, ROL or ROR, on the accumulator or on a memory cell,
\* the carry flag is the bit shifted out of the operand (bit 7 for ASL and
\* ROL, bit 0 for LSR and ROR), and after ROL / ROR bit 0 / bit 7 of the
\* result is the carry flag before the operation.
C27_ShiftCarryIsBitShiftedOut ==
    Ran({6, 10, 38, 42, 70, 74, 102, 106}) =>
        LET op_code == args[1].code[1]
            in_memory == Len(args[1].code) = 2
            operand == IF in_memory THEN args[1].ram[16] ELSE args[1].a
            result == IF in_memory THEN Load(memory, 16) ELSE a
            carry_in == HasBits(args[1].st, CARRY)
        IN  /\ fault = "none"
            /\ op_code \in {6, 10, 38, 42} =>
                   (HasBits(processor_status, CARRY) <=> operand >= 128)
            /\ op_code \in {70, 74, 102, 106} =>
                   (HasBits(processor_status, CARRY) <=> operand % 2 = 1)
            /\ op_code \in {38, 42} => (result % 2 = 1 <=> carry_in)
            /\ op_code \in {102, 106} => (result >= 128 <=> carry_in)

\* C28: SBC gives the accumulator, carry, overflow, zero and negative that
\* ADC gives for the same accumulator and carry and the operand m XOR 0xFF.
C28_SbcIsAdcOfComplement ==
    Ran({233}) =>
        LET t == [args[1] EXCEPT !.code = <<105, 255 - args[1].code[2]>>]
            sum == adc(test_cpu([Machine EXCEPT !.prg_rom = NoRom], t), ops_codes[105])
        IN  /\ fault = "none"
            /\ a = sum.a
            /\ processor_status = sum.processor_status

\* 0x50 - 0xF0 with the carry set: 0x60, borrow (carry clear), no overflow
C28_Witness ==
    /\ Ran({233}) /\ args[1].a = 80 /\ args[1].code[2] = 240 /\ args[1].st = 37
    /\ a = 96 /\ ~HasBits(processor_status, CARRY) /\ ~HasBits(processor_status, OVERFLOW)

\* C29: for AbsoluteX and AbsoluteY with base b and index i the resolved
\* address is (b + i) mod 65536 and the page-cross indicator is true exactly
\* when the high bytes of the resolved address and of b differ.
C29_AbsoluteIndexedPageCross ==
    op = "CPU::get_address" /\ args[1].code[1] \in {189, 190} =>
        LET base == args[1].code[2] + 256 * args[1].code[3]
            index == args[1].x
        IN  /\ fault = "none"
            /\ ret.addr = (base + index) % 65536
            /\ ret.page_cross <=> (ret.addr \div 256 # base \div 256)

\* C30: for ZeroPage, ZeroPageX and ZeroPageY with operand z and index i the
\* resolved address is (z + i) mod 256, the page-cross indicator is false and
\* the instruction is charged its base cycles.
C30_ZeroPageNeverCrosses ==
    LET op_code == args[1].code[1]
        base == args[1].code[2]
        index == IF op_code = 165 THEN 0 ELSE args[1].x
    IN  /\ op = "CPU::get_address" /\ op_code \in {165, 181, 182} =>
               /\ fault = "none"
               /\ ret.addr = (base + index) % 256
               /\ ret.page_cross = FALSE
        /\ Ran({165, 181, 182}) =>
               /\ fault = "none"
               /\ ret = ops_codes[op_code].cycle

\* C24: after n <= 256 pushes of b1..bn and nothing else, the pops return
\* bn, bn-1, ... and after the n-th the stack pointer is again the one at
\* the start; push_word(w) stores the high byte before the low byte and a
\* pop_word that follows returns w.
C24_StackIsLifo ==
    LET sp == args[1]
        pushed == args[2]
        popped == args[3]
    IN  /\ op \in {"CPU::push", "CPU::pop"} /\ Len(pushed) <= 256 =>
               /\ fault = "none"
               /\ \A j \in 1 .. Len(popped) : popped[j] = pushed[Len(pushed) + 1 - j]
               /\ stack_pointer = (sp + 256 * 2 - Len(pushed) + Len(popped)) % 256
               /\ op = "CPU::pop" => ret = popped[Len(popped)]
        /\ op = "CPU::push_word" =>
               /\ fault = "none"
               /\ Load(memory, STACK + sp) = pushed[1] \div 256
               /\ Load(memory, STACK + ((sp + 255) % 256)) = pushed[1] % 256
               /\ stack_pointer = (sp + 254) % 256
        /\ op = "CPU::pop_word" =>
               /\ fault = "none"
               /\ ret = pushed[1]
               /\ stack_pointer = sp

\* 256 bytes pushed and 256 popped: the first byte pushed comes back last
C24_Witness ==
    /\ op = "CPU::pop" /\ Len(args[2]) = 256 /\ Len(args[3]) = 256
    /\ ret = 32 /\ args[2][1] = 32 /\ args[3][1] = args[2][256]
    /\ stack_pointer = 253

\* C31: a branch at p with offset byte d sets the program counter to
\* (p + 2 + d) mod 65536, d read as a signed byte, when its condition holds
\* and to p + 2 when it does not; it changes no register, flag or memory
\* cell and reports its base cycle count.
C31_BranchTakenIffCondition ==
    Ran({16, 48, 80, 112, 144, 176, 208, 240}) =>
        LET t == args[1]
            op_code == t.code[1]
            d == IF t.code[2] >= 128 THEN t.code[2] - 256 ELSE t.code[2]
            flag == CASE op_code \in {144, 176} -> CARRY
                      [] op_code \in {208, 240} -> ZERO
                      [] op_code \in {16, 48} -> NEGATIVE
                      [] op_code \in {80, 112} -> OVERFLOW
            holds == HasBits(t.st, flag) <=> op_code \in {176, 240, 48, 112}
        IN  /\ fault = "none"
            /\ program_counter = IF holds THEN (t.pc + 2 + d + 65536) % 65536 ELSE t.pc + 2
            /\ <<a, x, y, stack_pointer, processor_status>> = <<t.a, t.x, t.y, t.sp, t.st>>
            /\ memory = test_cpu(Machine, t).memory
            /\ ret = ops_codes[op_code].cycle

\* BCC at 0x0000 with offset -128 and the carry clear goes to 0xFF82
C31_Witness ==
    /\ Ran({144}) /\ args[1].pc = 0 /\ args[1].code[2] = 128 /\ args[1].st = 36
    /\ program_counter = 65410

\* C32: a turn of the loop on an opcode whose descriptor is the sentinel,
\* other than the halt opcode, changes none of a, x, y, the stack pointer, the
\* status flags and memory, does not abort and does not return, and ticks the
\* bus by the descriptor's cycle count.
C32_SentinelIsNoOp ==
    op = "CPU::start_with_callback" /\ phase # "bus" /\ args[1] \in SentinelTests =>
        LET t == args[1]
            instruction == get_instruction_from_opcode(t.code[1])
        IN  /\ instruction.instruction_type = "NotImplemented"
            /\ fault = "none" /\ ~aborted /\ phase = "cpu"
            /\ <<a, x, y, stack_pointer, processor_status>> = <<t.a, t.x, t.y, t.sp, t.st>>
            /\ memory = test_cpu(Machine, t).memory
            /\ iter.executed /\ iter.ticked /\ iter.cycles = instruction.cycle
            /\ bus_cycles = instruction.cycle
            /\ <<ppu_cycles, scanline, ctrl, status, nmi_interrupt>> = <<0, 0, 0, 0, "None">>

\* opcode 0x02 followed by 0xFF at 0x8000: the turn ends at 0x8002
C32_Witness ==
    /\ op = "CPU::start_with_callback" /\ phase = "cpu"
    /\ args # <<>> /\ args[1].code = <<2, 255>> /\ args[1].pc = 32768
    /\ iter.ticked /\ program_counter = 32770 /\ a = 17

\* C33: every access of push, pop, push_word and pop_word is to 0x0100 + the
\* stack pointer, a byte, so inside 0x0100..=0x01FF: push writes there and
\* then moves the stack pointer down modulo 256, pop moves it up modulo 256
\* and then reads there.
C33_StackStaysInItsPage ==
    [][LET sp == stack_pointer
           cell(k) == STACK + ((sp + k) % 256)
       IN  /\ stack_pointer' \in 0 .. 255
           /\ DOMAIN memory' \subseteq 256 .. 511
           /\ op' = "CPU::push" =>
                  /\ memory' = Store(memory, cell(0), args'[2][Len(args'[2])])
                  /\ stack_pointer' = (sp + 255) % 256
           /\ op' = "CPU::pop" =>
                  /\ ret' = Load(memory, cell(1))
                  /\ stack_pointer' = (sp + 1) % 256
                  /\ memory' = memory
           /\ op' = "CPU::push_word" =>
                  /\ memory' = Store(Store(memory, cell(0), args'[2][1] \div 256),
                                      cell(255), args'[2][1] % 256)
                  /\ stack_pointer' = (sp + 254) % 256
           /\ op' = "CPU::pop_word" =>
                  /\ ret' = Load(memory, cell(1)) + 256 * Load(memory, cell(2))
                  /\ stack_pointer' = (sp + 2) % 256
                  /\ memory' = memory]_vars

\* after a push with stack pointer 0x00, which wrote 0x0100 and left 0xFF, a
\* pop reads 0x0100 and leaves 0x00
C33_Witness ==
    /\ op = "CPU::pop" /\ args[1] = 1 /\ Len(args[2]) = 2 /\ Len(args[3]) = 1
    /\ stack_pointer = 0 /\ ret = Load(memory, 256) /\ ret = args[2][2]

\* C34: program-counter and bus-address arithmetic wraps modulo 65536 and
\* never aborts: a byte fetched at 0xFFFF leaves the program counter at
\* 0x0000, read_word at 0xFFFF takes its high byte at 0x0000, JSR pushes
\* its return point modulo 65536 and RTS with the popped word 0xFFFF gives
\* the program counter 0x0000.
C34_AddressArithmeticWraps ==
    op = "CPU::execute at top" =>
           /\ ReadWordAt(65535).fault = "none"
           /\ ReadWordAt(65535).val = ReadAt(65535).val + 256 * ReadAt(0).val
           /\ fault = "none"
           /\ args[1].code[1] = 240 =>
                  program_counter = IF HasBits(args[1].st, ZERO) THEN 65535 ELSE 0
           /\ args[1].code[1] = 32 =>
                  /\ program_counter = 65520
                  /\ Load(memory, STACK + 253) = 255 /\ Load(memory, STACK + 252) = 255
           /\ args[1].code[1] = 96 => program_counter = 0

\* a call of CPU::interrupt that went through the entry sequence: it returns
\* at once when interrupt-disable is set and the kind is not IRQ
Entered ==
    /\ op = "CPU::interrupt" /\ fault = "none"
    /\ ~(HasBits(args[1].st, INTERRUPT_DISABLE) /\ args[2].itype # "IRQ")

\* C35: the status byte pushed by interrupt entry has its break bit equal to
\* the kind's break_flag (set for BRK, clear for NMI and IRQ) and its other
\* bits equal to the status register at entry.
C35_PushedBreakIsBreakFlag ==
    Entered =>
        LET pushed == Load(memory, STACK + ((args[1].sp + 254) % 256))
        IN  /\ HasBits(pushed, BREAK) = args[2].break_flag
            /\ remove(pushed, BREAK) = remove(args[1].st, BREAK)
\* C36: interrupt entry with stack pointer s and program counter p writes
\* the high byte of p at 0x0100 + s, the low byte at 0x0100 + (s - 1) mod 256
\* and the status snapshot at 0x0100 + (s - 2) mod 256, leaves the stack
\* pointer at (s - 3) mod 256, sets interrupt-disable, keeps a, x, y and the
\* flags carry, zero, decimal, overflow and negative, loads the program
\* counter from the kind's vector and ticks the bus by the kind's cycles.
C36_InterruptEntryFrame ==
    Entered =>
        LET t == args[1]
            int == args[2]
            cell(k) == STACK + ((t.sp + 256 - k) % 256)
        IN  /\ DOMAIN memory \subseteq {cell(0), cell(1), cell(2)}
            /\ Load(memory, cell(0)) = t.entry \div 256
            /\ Load(memory, cell(1)) = t.entry % 256
            /\ remove(Load(memory, cell(2)), BREAK) = remove(t.st, BREAK)
            /\ stack_pointer = (t.sp + 253) % 256
            /\ HasBits(processor_status, INTERRUPT_DISABLE)
            /\ <<a, x, y>> = <<t.a, t.x, t.y>>
            /\ \A flag \in {CARRY, ZERO, DECIMAL, OVERFLOW, NEGATIVE} :
                   HasBits(processor_status, flag) = HasBits(t.st, flag)
            /\ int.vector_addr = IF int.itype = "NMI" THEN 65530 ELSE 65534
            /\ program_counter = ReadAt(int.vector_addr).val
                                     + 256 * ReadAt(int.vector_addr + 1).val
            /\ program_counter = IF int.itype = "NMI" THEN 37428 ELSE 65520
            /\ bus_cycles = int.cpu_cycles /\ ppu_cycles = 3 * int.cpu_cycles

\* an IRQ taken with interrupt-disable set, the stack wrapping below 0x0100
C36_Witness ==
    /\ Entered /\ args[2].itype = "IRQ" /\ args[1].st = 239 /\ args[1].sp = 1
    /\ args[1].entry = 4660
    /\ Load(memory, 257) = 18 /\ Load(memory, 256) = 52 /\ Load(memory, 511) = 255
    /\ stack_pointer = 254 /\ program_counter = 65520 /\ bus_cycles = 2

\* C37: a turn of the loop that fetches BRK runs the interrupt entry once,
\* with interrupt-disable set or clear: the program counter and the status
\* are pushed and the program counter is loaded from the vector at 0xFFFE.
C37_BrkAlwaysEntersOnce ==
    op = "CPU::start_with_callback" /\ phase # "bus" /\ args[1] \in BreakTests =>
        LET t == args[1]
            cell(k) == STACK + ((t.sp + 256 - k) % 256)
        IN  /\ fault = "none" /\ phase = "cpu"
            /\ stack_pointer = (t.sp + 253) % 256
            /\ Load(memory, cell(0)) * 256 + Load(memory, cell(1)) = t.pc + 1
            /\ remove(Load(memory, cell(2)), BREAK) = remove(t.st, BREAK)
            /\ HasBits(processor_status, INTERRUPT_DISABLE)
            /\ program_counter = 65520

\* C38: as long as no call has aborted, the vblank flag of the graphics unit
\* is clear and its pending interrupt is None, so poll_nmi_status does not
\* return Some: the vblank flag is set only by the tick that then aborts, and
\* a control write raises the interrupt only with the vblank flag set.
C38_NoVblankWithoutAbort ==
    ~aborted =>
        /\ ~is_in_vblank(status)
        /\ nmi_interrupt = "None"
        /\ poll_nmi_status(Machine) = "None"

\* the generate-NMI bit turned on after scanline 241 has gone by with it off
C38_Witness ==
    /\ ~aborted /\ op = "PPU::write_register"
    /\ generate_vblank_nmi(ctrl) /\ scanline > VblankScanline
    /\ ~is_in_vblank(status) /\ poll_nmi_status(Machine) = "None"

\* C39: when the CPU starts with the break flag of its status register
\* clear, the flag is clear after every instruction, interrupt entry and turn
\* of the loop: PHP and interrupt entry set it in the pushed copy only, PLP
\* and RTI clear it.
C39_LiveBreakStaysClear ==
    op # "new" /\ ~HasBits(args[1].st, BREAK) => ~HasBits(processor_status, BREAK)

\* RTI popping 0xFF into a status register that had the break flag clear
C39_Witness ==
    /\ Ran({64}) /\ args[1].st = 36 /\ Load(args[1].ram, 507) = 255
    /\ fault = "none" /\ processor_status = 239 /\ stack_pointer = 253

\* C40: interrupt entry followed by RTI, the three pushed bytes untouched in
\* between, is a round trip: the program counter is the one that entry
\* pushed, the stack pointer is the one before entry, and the flags carry,
\* zero, interrupt-disable, decimal, overflow and negative are those before
\* entry.
C40_EntryThenRtiRoundTrip ==
    (/\ op = "CPU::rti"
     /\ ~(HasBits(args[1].st, INTERRUPT_DISABLE) /\ args[2].itype # "IRQ")) =>
        /\ fault = "none"
        /\ program_counter = args[1].entry
        /\ stack_pointer = args[1].sp
        /\ \A flag \in {CARRY, ZERO, INTERRUPT_DISABLE, DECIMAL, OVERFLOW, NEGATIVE} :
               HasBits(processor_status, flag) = HasBits(args[1].st, flag)

\* an NMI taken at 0x1234 with interrupt-disable clear and the stack pointer
\* 0x01, and the return from it
C40_Witness ==
    /\ op = "CPU::rti" /\ args[2].itype = "NMI" /\ args[1].st = 235 /\ args[1].sp = 1
    /\ args[1].entry = 4660
    /\ program_counter = 4660 /\ stack_pointer = 1 /\ processor_status = 235
    /\ Load(memory, 511) = 251
=============================================================================
